---- MODULE Spec2Model ----
(***************************************************************************)
(* A model of the evidence-collection-and-inference pipeline of            *)
(* detective-cli: the health scorer, the contextualizer, the file-system   *)
(* walk with its largest-files selection, the git history analyzer with    *)
(* its top-contributor selection, the marker, timeline and security        *)
(* scanners, the project detector, the report hash, the finding generator  *)
(* with the rendered order, and the investigator notes.                    *)
(*                                                                         *)
(* Each component has its own specification (SpecHealth, SpecPermute,      *)
(* SpecContext, SpecFS, SpecCategorize, SpecTop, SpecGit, SpecHistory,     *)
(* SpecWalk, SpecRescan, SpecDetect, SpecHash, SpecGenerate, SpecNotes):   *)
(* the components share no mutable state, so a specification initialises   *)
(* the variables of the other components to a fixed idle value and never   *)
(* changes them.                                                           *)
(***************************************************************************)
EXTENDS Integers, Sequences, FiniteSets, TLC

VARIABLES
    pc,              \* position of the component under analysis
    \* InferenceEngine
    findings,        \* the caller's findings slice (its backing array)
    hEvidence,       \* the Evidence fields computeHealth reads
    penalised,       \* HealthBreakdown after the deduction loop
    breakdown,       \* HealthBreakdown returned
    totalScore,      \* score returned
    context,         \* context label handed to ContextualizeFindings
    contextualized,  \* slice returned by ContextualizeFindings
    again,           \* slice returned when the result is contextualized again
    \* FileSystemScanner
    root,            \* what the root path is: "ok", "missing" or "unreadable"
    opts,            \* ScanOptions
    fsEvidence,      \* the FileSystemEvidence being built
    walked,          \* the files the callback counted, in encounter order
    pruning,         \* Walk is passing over the subtree of a skipped directory
    fsErr,           \* the error ScanFileSystem returns
    \* GitHistoryAnalyzer
    contributorList, \* the contributors, in the order the map was ranged over
    topContributors, \* evidence.TopContributors
    repo,            \* how far opening the repository got
    gitEvidence,     \* the GitEvidence being built
    gitErr,          \* the error AnalyzeRepository returns
    contributors,    \* map from author email to *ContributorInfo
    recentCommits,   \* the commits retained
    commitCount,
    firstCommit,     \* 0 is the zero time.Time
    lastCommit,
    windowCounts,    \* commits7Days, commits30Days, commits90Days
    goodMessages,
    \* the walks of the scanners over a tree
    tree,            \* the nodes of the tree under the root path
    todo,            \* the paths filepath.Walk has still to visit, next first
    markers,         \* the []CodeMarker being built by ScanCodeMarkers
    markersAgain,    \* the same, in a second run on the same tree
    timeline,        \* the TimelineEvidence being built by AnalyzeTimeline
    modTimes,        \* the modification times AnalyzeTimeline collected
    secEvidence,     \* the SecurityEvidence being built by ScanSecurity
    secAgain,        \* the same, in a second run on the same tree
    \* ProjectDetector
    detFiles,        \* the names of the files Walk hands to the detector
    project,         \* the ProjectType returned by DetectProjectType
    projectAgain,    \* the same, in a second run on the same tree
    \* report integrity, finding generation and rendering
    report,          \* a Report
    reportOther,     \* another Report
    hash,            \* ComputeReportHash(report)
    hashOther,       \* ComputeReportHash(reportOther)
    genEvidence,     \* the Evidence handed to GenerateFindingsEnhanced
    generated,       \* the findings it returned
    rendered,        \* the findings in the order the report prints them
    notes            \* the notes GenerateInvestigatorNotes returned

healthVars == <<hEvidence, penalised, breakdown, totalScore>>
ctxVars == <<context, contextualized, again>>
fsVars == <<root, opts, fsEvidence, walked, pruning, fsErr>>
topVars == <<contributorList, topContributors>>
gitVars == <<repo, gitEvidence, gitErr, contributors, recentCommits, commitCount,
             firstCommit, lastCommit, windowCounts, goodMessages>>

walkVars == <<tree, todo, markers, markersAgain, timeline, modTimes>>
secVars == <<secEvidence, secAgain>>
detVars == <<detFiles, project, projectAgain>>
hashVars == <<report, reportOther, hash, hashOther>>
genVars == <<genEvidence, generated, rendered, notes>>

\* The variables of the scanners' walks, the detector, the hash and the
\* generator, and those of the scorer, contextualizer and git analyzer.
scanVars == <<walkVars, secVars, detVars, hashVars, genVars>>
coreVars == <<findings, healthVars, ctxVars, topVars, gitVars>>

vars == <<pc, findings, healthVars, ctxVars, fsVars, topVars, gitVars, scanVars>>

(***************************************************************************)
(* Bounds of the model.                                                    *)
(***************************************************************************)
MaxFindings == 2
MaxCtxFindings == 2
MaxFiles == 11
MaxDirs == 1
MaxContributors == 11
MaxCommits == 3

(***************************************************************************)
(* pkg/models: severities, categories, findings.                           *)
(***************************************************************************)
SeverityLow == 0
SeverityMedium == 1
SeverityHigh == 2
SeverityCritical == 3
Severity == {SeverityLow, SeverityMedium, SeverityHigh, SeverityCritical}

FindingCodeQuality == "code-quality"
FindingSecurity == "security"
FindingPerformance == "performance"
FindingMaintainability == "maintainability"
FindingVersionControl == "version-control"
FindingDocumentation == "documentation"
FindingCategory == {FindingCodeQuality, FindingSecurity, FindingPerformance,
                    FindingMaintainability, FindingVersionControl,
                    FindingDocumentation}

None == "none"

\* The variables of a component that a specification does not exercise.
IdleHealth ==
    hEvidence = None /\ penalised = None /\ breakdown = None /\ totalScore = None
IdleContext == context = None /\ contextualized = None /\ again = None
IdleFS ==
    /\ root = None /\ opts = None /\ fsEvidence = None
    /\ walked = None /\ pruning = None /\ fsErr = None
IdleTop == contributorList = None /\ topContributors = None
IdleGit ==
    /\ repo = None /\ gitEvidence = None /\ gitErr = None
    /\ contributors = None /\ recentCommits = None /\ commitCount = None
    /\ firstCommit = None /\ lastCommit = None /\ windowCounts = None
    /\ goodMessages = None

IdleWalk ==
    /\ tree = None /\ todo = None /\ markers = None /\ markersAgain = None
    /\ timeline = None /\ modTimes = None
IdleSec == secEvidence = None /\ secAgain = None
IdleDet == detFiles = None /\ project = None /\ projectAgain = None
IdleHash ==
    report = None /\ reportOther = None /\ hash = None /\ hashOther = None
IdleGen == genEvidence = None /\ generated = None /\ rendered = None /\ notes = None
IdleScan == IdleWalk /\ IdleSec /\ IdleDet /\ IdleHash /\ IdleGen
IdleCore ==
    findings = None /\ IdleHealth /\ IdleContext /\ IdleTop /\ IdleGit

max(a, b) == IF a > b THEN a ELSE b

min(a, b) == IF a < b THEN a ELSE b

\* The orders in which ranging over a Go map can yield the keys.
Orders(keys) ==
    {q \in [1..Cardinality(keys) -> keys] :
        \A i, j \in DOMAIN q : i # j => q[i] # q[j]}

\* All sequences over S of length at most n.
SeqUpTo(S, n) == UNION {[1..k -> S] : k \in 0..n}

(***************************************************************************)
(* HealthScorer: CalculateHealthScoreWeighted.                             *)
(***************************************************************************)
\* Mutant of InitialBreakdown: Documentation and Testing start at 5, so that
\* their bonuses are what brings them to 10.
InitialBreakdownBonusesCount ==
    [VersionControl |-> 20, CodeQuality |-> 25, Security |-> 20,
     Performance |-> 15, Documentation |-> 5, Testing |-> 5]

InitialBreakdown ==
    [VersionControl |-> 20, CodeQuality |-> 25, Security |-> 20,
     Performance |-> 15, Documentation |-> 10, Testing |-> 10]

\* Mutant of Deduction: the 10/7/4/2 scale of CalculateHealthBreakdown.
DeductionOtherScale(severity) ==
    CASE severity = SeverityCritical -> 10
      [] severity = SeverityHigh -> 7
      [] severity = SeverityMedium -> 4
      [] severity = SeverityLow -> 2
      [] OTHER -> 0

Deduction(severity) ==
    CASE severity = SeverityCritical -> 10
      [] severity = SeverityHigh -> 5
      [] severity = SeverityMedium -> 3
      [] severity = SeverityLow -> 1
      [] OTHER -> 0

\* Mutant of DeductFinding: the components are not floored at 0.
DeductFindingNoFloor(b, finding) ==
    LET deduction == Deduction(finding.Severity) IN
    CASE finding.Category = FindingVersionControl ->
            [b EXCEPT !.VersionControl = @ - deduction]
      [] finding.Category \in {FindingCodeQuality, FindingMaintainability} ->
            [b EXCEPT !.CodeQuality = @ - deduction]
      [] finding.Category = FindingSecurity ->
            [b EXCEPT !.Security = @ - deduction]
      [] finding.Category = FindingPerformance ->
            [b EXCEPT !.Performance = @ - deduction]
      [] OTHER ->
            [b EXCEPT !.CodeQuality = @ - deduction]

\* Mutant of DeductFinding: a deduction larger than what is left of the
\* component is dropped instead of flooring the component at 0.
DeductFindingIfItFits(b, finding) ==
    LET deduction == Deduction(finding.Severity)
        Less(x) == IF x >= deduction THEN x - deduction ELSE x
    IN
    CASE finding.Category = FindingVersionControl ->
            [b EXCEPT !.VersionControl = Less(@)]
      [] finding.Category \in {FindingCodeQuality, FindingMaintainability} ->
            [b EXCEPT !.CodeQuality = Less(@)]
      [] finding.Category = FindingSecurity ->
            [b EXCEPT !.Security = Less(@)]
      [] finding.Category = FindingPerformance ->
            [b EXCEPT !.Performance = Less(@)]
      [] OTHER ->
            [b EXCEPT !.CodeQuality = Less(@)]

\* One iteration of the deduction loop.
DeductFinding(b, finding) ==
    LET deduction == Deduction(finding.Severity) IN
    CASE finding.Category = FindingVersionControl ->
            [b EXCEPT !.VersionControl = max(0, @ - deduction)]
      [] finding.Category \in {FindingCodeQuality, FindingMaintainability} ->
            [b EXCEPT !.CodeQuality = max(0, @ - deduction)]
      [] finding.Category = FindingSecurity ->
            [b EXCEPT !.Security = max(0, @ - deduction)]
      [] finding.Category = FindingPerformance ->
            [b EXCEPT !.Performance = max(0, @ - deduction)]
      [] OTHER ->
            [b EXCEPT !.CodeQuality = max(0, @ - deduction)]

RECURSIVE DeductAll(_, _)
DeductAll(b, fs) ==
    IF fs = <<>> THEN b ELSE DeductAll(DeductFinding(b, Head(fs)), Tail(fs))

\* Mutant of ApplyBonuses: the version-control bonus from 10 commits on.
ApplyBonusesFromTen(b, ev) ==
    LET b1 == IF ev.IsRepository /\ ev.TotalCommits >= 10
              THEN [b EXCEPT !.VersionControl = min(20, @ + 2)] ELSE b
        b2 == IF ev.TestFiles > 0
              THEN [b1 EXCEPT !.Testing = min(10, @ + 5)] ELSE b1
        b3 == IF ev.DocumentationFiles > 0
              THEN [b2 EXCEPT !.Documentation = min(10, @ + 5)] ELSE b2
    IN b3

\* The bonus points, applied to the breakdown the deduction loop leaves.
ApplyBonuses(b, ev) ==
    LET b1 == IF ev.IsRepository /\ ev.TotalCommits > 10
              THEN [b EXCEPT !.VersionControl = min(20, @ + 2)] ELSE b
        b2 == IF ev.TestFiles > 0
              THEN [b1 EXCEPT !.Testing = min(10, @ + 5)] ELSE b1
        b3 == IF ev.DocumentationFiles > 0
              THEN [b2 EXCEPT !.Documentation = min(10, @ + 5)] ELSE b2
    IN b3

SumBreakdown(b) ==
    b.VersionControl + b.CodeQuality + b.Security + b.Performance
        + b.Documentation + b.Testing

CalculateHealthScoreWeighted(fs, ev) ==
    LET afterLoop == DeductAll(InitialBreakdown, fs)
        final == ApplyBonuses(afterLoop, ev)
    IN [penalised |-> afterLoop, breakdown |-> final,
        totalScore |-> SumBreakdown(final)]

\* A finding as computeHealth sees it: only Severity and Category are read.
HealthFinding(sev, cat) ==
    [Severity |-> sev, Title |-> <<"Finding">>, Description |-> "d",
     Evidence |-> <<"e">>, Recommendations |-> <<>>, Category |-> cat]

\* Category is a string: besides the six constants a finding may carry none
\* (the findings of GenerateFindings set no Category).
HealthCategories == FindingCategory \cup {""}

HealthFindings == {HealthFinding(s, c) : s \in Severity, c \in HealthCategories}

HealthEvidence ==
    {[IsRepository |-> g[1], TotalCommits |-> g[2], TestFiles |-> t,
      DocumentationFiles |-> d] :
        g \in {<<FALSE, 0>>, <<TRUE, 10>>, <<TRUE, 11>>},
        t \in {0, 1}, d \in {0, 1}}

InitHealth ==
    /\ pc = "health"
    /\ findings \in SeqUpTo(HealthFindings, MaxFindings)
    /\ IdleScan /\ IdleHealth /\ IdleContext /\ IdleFS /\ IdleTop /\ IdleGit

ComputeHealth ==
    /\ pc = "health"
    /\ \E ev \in HealthEvidence :
        LET r == CalculateHealthScoreWeighted(findings, ev) IN
        /\ hEvidence' = ev
        /\ penalised' = r.penalised
        /\ breakdown' = r.breakdown
        /\ totalScore' = r.totalScore
    /\ pc' = "healthDone"
    /\ UNCHANGED <<findings, ctxVars, scanVars, fsVars, topVars, gitVars>>

NextHealth == ComputeHealth

SpecHealth == InitHealth /\ [][NextHealth]_vars

\* The canonical deduction of a severity, as the specification states it.
CanonicalDeduction(sev) ==
    IF sev = SeverityCritical THEN 10
    ELSE IF sev = SeverityHigh THEN 5
    ELSE IF sev = SeverityMedium THEN 3
    ELSE 1

\* Sum of the canonical deductions of the findings of fs whose category is in cats.
RECURSIVE SumDeductions(_, _)
SumDeductions(fs, cats) ==
    IF fs = <<>> THEN 0
    ELSE (IF Head(fs).Category \in cats
          THEN CanonicalDeduction(Head(fs).Severity) ELSE 0)
         + SumDeductions(Tail(fs), cats)

\* C1: the breakdown computeHealth returns has every component in its own
\* range (VersionControl 0..20, CodeQuality 0..25, Security 0..20,
\* Performance 0..15, Documentation 0..10, Testing 0..10), and the score
\* returned is the sum of the six components and lies in 0..100.
C1_HealthInRange ==
    pc = "healthDone" =>
        /\ breakdown.VersionControl \in 0..20
        /\ breakdown.CodeQuality \in 0..25
        /\ breakdown.Security \in 0..20
        /\ breakdown.Performance \in 0..15
        /\ breakdown.Documentation \in 0..10
        /\ breakdown.Testing \in 0..10
        /\ totalScore = breakdown.VersionControl + breakdown.CodeQuality
                          + breakdown.Security + breakdown.Performance
                          + breakdown.Documentation + breakdown.Testing
        /\ totalScore \in 0..100

\* C1 witness: two Critical performance findings take Performance below 0
\* before the floor, and the version-control bonus meets its cap of 20.
C1_Witness ==
    /\ pc = "healthDone"
    /\ Len(findings) = 2
    /\ \A i \in 1..2 : /\ findings[i].Category = FindingPerformance
                        /\ findings[i].Severity = SeverityCritical
    /\ breakdown.Performance = 0
    /\ hEvidence.IsRepository /\ hEvidence.TotalCommits > 10
    /\ breakdown.VersionControl = 20

\* C2 as stated: before bonuses each penalised component is max(0, maximum -
\* sum of the deductions of the findings mapped to it), with only
\* version-control -> VersionControl, code-quality and maintainability ->
\* CodeQuality, security -> Security, performance -> Performance; no finding
\* lowers another component, and none lowers Documentation or Testing.
C2_AsStated ==
    pc = "healthDone" =>
        /\ penalised.VersionControl =
              max(0, 20 - SumDeductions(findings, {FindingVersionControl}))
        /\ penalised.CodeQuality =
              max(0, 25 - SumDeductions(findings,
                              {FindingCodeQuality, FindingMaintainability}))
        /\ penalised.Security =
              max(0, 20 - SumDeductions(findings, {FindingSecurity}))
        /\ penalised.Performance =
              max(0, 15 - SumDeductions(findings, {FindingPerformance}))
        /\ penalised.Documentation = 10
        /\ penalised.Testing = 10

\* C2 amended: as C2, except that CodeQuality is also lowered by every finding
\* whose category is none of version-control, security and performance
\* (documentation included): before bonuses CodeQuality is max(0, 25 - sum of
\* the deductions of all findings not mapped to one of the other three).
C2_Amended ==
    pc = "healthDone" =>
        /\ penalised.VersionControl =
              max(0, 20 - SumDeductions(findings, {FindingVersionControl}))
        /\ penalised.CodeQuality =
              max(0, 25 - SumDeductions(findings,
                              HealthCategories \ {FindingVersionControl,
                                  FindingSecurity, FindingPerformance}))
        /\ penalised.Security =
              max(0, 20 - SumDeductions(findings, {FindingSecurity}))
        /\ penalised.Performance =
              max(0, 15 - SumDeductions(findings, {FindingPerformance}))
        /\ penalised.Documentation = 10
        /\ penalised.Testing = 10

\* C2 witness: a High documentation finding and a Medium maintainability
\* finding have both been deducted from CodeQuality.
C2_Witness ==
    /\ pc = "healthDone"
    /\ Len(findings) = 2
    /\ findings[1].Category = FindingDocumentation
    /\ findings[1].Severity = SeverityHigh
    /\ findings[2].Category = FindingMaintainability
    /\ findings[2].Severity = SeverityMedium
    /\ penalised.CodeQuality = 17

(***************************************************************************)
(* Contextualizer: ContextualizeFindings.                                  *)
(* A context label is a sequence of characters, a title a sequence of      *)
(* words; strings.Contains is containment of a contiguous run of words.    *)
(***************************************************************************)
UpperCase == <<"A", "B", "C", "D", "E", "F", "G", "H", "I", "J", "K", "L", "M",
               "N", "O", "P", "Q", "R", "S", "T", "U", "V", "W", "X", "Y", "Z">>
LowerCase == <<"a", "b", "c", "d", "e", "f", "g", "h", "i", "j", "k", "l", "m",
               "n", "o", "p", "q", "r", "s", "t", "u", "v", "w", "x", "y", "z">>

ToLowerChar(c) ==
    IF \E i \in DOMAIN UpperCase : UpperCase[i] = c
    THEN LowerCase[CHOOSE i \in DOMAIN UpperCase : UpperCase[i] = c]
    ELSE c

ToLower(s) == [i \in DOMAIN s |-> ToLowerChar(s[i])]

Contains(s, substr) ==
    \E k \in 0..(Len(s) - Len(substr)) :
        \A i \in 1..Len(substr) : s[k + i] = substr[i]

CtxEmpty == <<>>
CtxDefault == <<"d", "e", "f", "a", "u", "l", "t">>
CtxStudent == <<"s", "t", "u", "d", "e", "n", "t">>
CtxEnterprise == <<"e", "n", "t", "e", "r", "p", "r", "i", "s", "e">>
CtxStudentCap == <<"S", "t", "u", "d", "e", "n", "t">>
CtxEnterpriseUpper == <<"E", "N", "T", "E", "R", "P", "R", "I", "S", "E">>
CtxStudents == <<"s", "t", "u", "d", "e", "n", "t", "s">>
CtxProd == <<"p", "r", "o", "d">>

Contexts == {CtxEmpty, CtxDefault, CtxStudent, CtxEnterprise, CtxStudentCap,
             CtxEnterpriseUpper, CtxStudents, CtxProd}

SingleContributor == <<"Single", "Contributor">>
VersionControl == <<"Version", "Control">>
NoVersionControl == <<"No", "Version", "Control">>
StaleRepository == <<"Stale", "Repository">>

\* Mutant of AdjustSeverity: the student rule ignores the title, the
\* enterprise rule ignores the severity.
AdjustSeverityLoose(f, lowered) ==
    CASE lowered = CtxStudent ->
            IF f.Severity = SeverityHigh
            THEN [f EXCEPT !.Severity = SeverityMedium] ELSE f
      [] lowered = CtxEnterprise ->
            IF Contains(f.Title, NoVersionControl)
                  \/ Contains(f.Title, StaleRepository)
            THEN [f EXCEPT !.Severity = SeverityHigh] ELSE f
      [] OTHER -> f

\* Mutant of AdjustSeverity: the label is matched by containment, so that
\* "students" selects the student rules.
AdjustSeverityByContainment(f, lowered) ==
    IF Contains(lowered, CtxStudent)
    THEN IF /\ f.Severity = SeverityHigh
            /\ (Contains(f.Title, SingleContributor)
                  \/ Contains(f.Title, VersionControl))
         THEN [f EXCEPT !.Severity = SeverityMedium] ELSE f
    ELSE IF Contains(lowered, CtxEnterprise)
    THEN IF /\ f.Severity = SeverityMedium
            /\ (Contains(f.Title, NoVersionControl)
                  \/ Contains(f.Title, StaleRepository))
         THEN [f EXCEPT !.Severity = SeverityHigh] ELSE f
    ELSE f

\* The severity ContextualizeFindings leaves on one element of its copy.
AdjustSeverity(f, lowered) ==
    CASE lowered = CtxStudent ->
            IF /\ f.Severity = SeverityHigh
               /\ (Contains(f.Title, SingleContributor)
                     \/ Contains(f.Title, VersionControl))
            THEN [f EXCEPT !.Severity = SeverityMedium] ELSE f
      [] lowered = CtxEnterprise ->
            IF /\ f.Severity = SeverityMedium
               /\ (Contains(f.Title, NoVersionControl)
                     \/ Contains(f.Title, StaleRepository))
            THEN [f EXCEPT !.Severity = SeverityHigh] ELSE f
      [] OTHER -> f

\* Mutant of MakeCopy: contextualized := findings, so that the slice worked
\* on shares the caller's backing array.
MakeCopyAliased(fs) == [shared |-> TRUE, elems |-> fs]

\* make + copy: the slice worked on has a backing array of its own, holding
\* the elements of the caller's slice by value.
MakeCopy(fs) == [shared |-> FALSE, elems |-> fs]

\* The caller's backing array after the call, and the slice returned.
ContextualizeFindings(fs, ctx) ==
    LET c == IF ctx = <<>> THEN CtxDefault ELSE ctx
        copied == MakeCopy(fs)
        adjusted == [i \in DOMAIN copied.elems |->
                        AdjustSeverity(copied.elems[i], ToLower(c))]
    IN [caller |-> IF copied.shared THEN adjusted ELSE fs, ret |-> adjusted]

\* Titles the rule groups emit, and two that match no rule.
CtxTitles ==
    {NoVersionControl, StaleRepository,
     <<"Single", "Contributor", "(Bus", "Factor", "Risk)">>,
     <<"Inactive", "Repository">>,
     <<"Known", "Issues", "in", "Code">>}

CtxCategory(title) ==
    IF title = <<"Known", "Issues", "in", "Code">> THEN FindingCodeQuality
    ELSE IF Contains(title, SingleContributor) THEN FindingMaintainability
    ELSE FindingVersionControl

CtxFindings ==
    {[Severity |-> s, Title |-> t, Description |-> "d", Evidence |-> <<"e">>,
      Recommendations |-> <<"r">>, Category |-> CtxCategory(t)] :
        s \in Severity, t \in CtxTitles}

InitContext ==
    /\ pc = "context"
    /\ findings \in SeqUpTo(CtxFindings, MaxCtxFindings)
    /\ context \in Contexts
    /\ contextualized = None
    /\ again = None
    /\ IdleScan /\ IdleHealth /\ IdleFS /\ IdleTop /\ IdleGit

Contextualize ==
    /\ pc = "context"
    /\ LET r == ContextualizeFindings(findings, context) IN
        /\ findings' = r.caller
        /\ contextualized' = r.ret
    /\ pc' = "contextDone"
    /\ UNCHANGED <<context, again, healthVars, scanVars, fsVars, topVars, gitVars>>

\* The caller applies the function again to what it got back.
ContextualizeAgain ==
    /\ pc = "contextDone"
    /\ LET r == ContextualizeFindings(contextualized, context) IN
        /\ contextualized' = r.caller
        /\ again' = r.ret
    /\ pc' = "contextTwice"
    /\ UNCHANGED <<findings, context, healthVars, scanVars, fsVars, topVars, gitVars>>

NextContext == Contextualize \/ ContextualizeAgain

SpecContext == InitContext /\ [][NextContext]_vars

\* The mode a context label selects: labels are compared after lower-casing.
IsStudent(ctx) == ToLower(ctx) = CtxStudent
IsEnterprise(ctx) == ToLower(ctx) = CtxEnterprise

StudentCase(f) ==
    /\ f.Severity = SeverityHigh
    /\ (Contains(f.Title, SingleContributor) \/ Contains(f.Title, VersionControl))

EnterpriseCase(f) ==
    /\ f.Severity = SeverityMedium
    /\ (Contains(f.Title, NoVersionControl) \/ Contains(f.Title, StaleRepository))

SameButSeverity(f, g) ==
    /\ f.Title = g.Title
    /\ f.Description = g.Description
    /\ f.Category = g.Category
    /\ f.Evidence = g.Evidence
    /\ f.Recommendations = g.Recommendations

\* C3: contextualize changes a finding's severity in exactly two cases: in
\* student mode a High finding whose title contains "Single Contributor" or
\* "Version Control" becomes Medium; in enterprise mode a Medium finding whose
\* title contains "No Version Control" or "Stale Repository" becomes High;
\* every other finding keeps its severity.
C3_ExactlyTwoCases ==
    pc # "context" =>
        \A i \in DOMAIN findings :
            /\ (IsStudent(context) /\ StudentCase(findings[i]))
                  => contextualized[i].Severity = SeverityMedium
            /\ (IsEnterprise(context) /\ EnterpriseCase(findings[i]))
                  => contextualized[i].Severity = SeverityHigh
            /\ (contextualized[i].Severity # findings[i].Severity)
                  => \/ IsStudent(context) /\ StudentCase(findings[i])
                     \/ IsEnterprise(context) /\ EnterpriseCase(findings[i])

\* C3 witness: in enterprise mode a Medium "Stale Repository" finding became
\* High while a High "No Version Control" finding beside it kept its severity.
C3_Witness ==
    /\ pc = "contextDone"
    /\ context = CtxEnterprise
    /\ Len(findings) = 2
    /\ findings[1].Title = StaleRepository
    /\ findings[1].Severity = SeverityMedium
    /\ contextualized[1].Severity = SeverityHigh
    /\ findings[2].Title = NoVersionControl
    /\ findings[2].Severity = SeverityHigh
    /\ contextualized[2].Severity = SeverityHigh

\* C4 as stated: for the empty label, "default" and every string that is not
\* one of the three labels default, student, enterprise, the result equals
\* the input element by element, and applying the function to the result
\* gives the result again.
C4_AsStated ==
    (pc # "context" /\ context \notin {CtxStudent, CtxEnterprise}) =>
        /\ contextualized = findings
        /\ pc = "contextTwice" => again = contextualized

\* C4 amended: for the empty label, "default" and every string whose
\* lower-cased form is neither "student" nor "enterprise", the result equals
\* the input element by element, and applying the function to the result
\* gives the result again.
C4_Amended ==
    (pc # "context" /\ ~IsStudent(context) /\ ~IsEnterprise(context)) =>
        /\ contextualized = findings
        /\ pc = "contextTwice" => again = contextualized

\* C4 witness: under the unrecognised label "students" a High "No Version
\* Control" finding came back unchanged, twice.
C4_Witness ==
    /\ pc = "contextTwice"
    /\ context = CtxStudents
    /\ Len(findings) = 1
    /\ findings[1].Title = NoVersionControl
    /\ findings[1].Severity = SeverityHigh
    /\ contextualized = findings
    /\ again = findings

\* C5: for every context a call of contextualize leaves the caller's input
\* sequence as it was, and returns a sequence of the same length whose i-th
\* finding equals the i-th input finding in title, description, category,
\* evidence and recommendations.
C5_InputKept ==
    [][/\ (pc = "context" /\ pc' = "contextDone") =>
            /\ findings' = findings
            /\ DOMAIN contextualized' = DOMAIN findings
            /\ \A i \in DOMAIN findings :
                    SameButSeverity(contextualized'[i], findings[i])
       /\ (pc = "contextDone" /\ pc' = "contextTwice") =>
            /\ contextualized' = contextualized
            /\ DOMAIN again' = DOMAIN contextualized
            /\ \A i \in DOMAIN contextualized :
                    SameButSeverity(again'[i], contextualized[i])]_vars

\* C5 witness: the call returned a finding with another severity than the
\* caller's, whose own sequence still holds the High finding it passed.
C5_Witness ==
    /\ pc = "contextDone"
    /\ context = CtxStudentCap
    /\ Len(findings) = 2
    /\ findings[2].Severity = SeverityHigh
    /\ contextualized[2].Severity = SeverityMedium

(***************************************************************************)
(* FileSystemScanner: ScanFileSystem.                                      *)
(* Paths, names and extensions are sequences of characters.  filepath.Walk *)
(* hands the callback one entry at a time, in encounter order; SpecFS      *)
(* draws the entries as the walk meets them, SpecWalk below walks a tree.  *)
(***************************************************************************)
TopLargest == 10

Digits == <<"0", "1", "2", "3", "4", "5", "6", "7", "8", "9">>

\* The decimal digits of a natural number (the %d verb of fmt).
RECURSIVE Itoa(_)
Itoa(n) ==
    IF n < 10 THEN <<Digits[n + 1]>>
    ELSE Itoa(n \div 10) \o <<Digits[(n % 10) + 1]>>

\* filepath.Ext: the suffix from the last dot of the last path element.
Ext(path) ==
    LET dots == {i \in DOMAIN path :
                    path[i] = "." /\ \A j \in i..Len(path) : path[j] # "/"}
    IN IF dots = {} THEN <<>>
       ELSE SubSeq(path, CHOOSE i \in dots : \A j \in dots : j <= i, Len(path))

\* filepath.Join of a directory path and a name.
Join(dir, name) == dir \o <<"/">> \o name

NoExtension == <<"n", "o", "-", "e", "x", "t", "e", "n", "s", "i", "o", "n">>

CategorySource == "source"
CategoryAsset == "asset"
CategoryDependency == "dependency"
CategoryBuildArtifact == "build-artifact"
CategoryConfig == "config"
CategoryDocumentation == "documentation"
CategoryTest == "test"
CategoryOther == "other"

sourceExts ==
    {<<".", "g", "o">>, <<".", "j", "s">>, <<".", "t", "s">>, <<".", "t", "s", "x">>, <<".", "j", "s", "x">>, <<".", "p", "y">>, <<".", "p", "h", "p">>,
     <<".", "j", "a", "v", "a">>, <<".", "c">>, <<".", "c", "p", "p">>, <<".", "r", "b">>, <<".", "r", "s">>, <<".", "c", "s">>, <<".", "k", "t">>,
     <<".", "s", "w", "i", "f", "t">>}

assetExts ==
    {<<".", "j", "p", "g">>, <<".", "j", "p", "e", "g">>, <<".", "p", "n", "g">>, <<".", "g", "i", "f">>, <<".", "s", "v", "g">>, <<".", "i", "c", "o">>, <<".", "w", "e", "b", "p">>,
     <<".", "m", "p", "4">>, <<".", "m", "p", "3">>, <<".", "w", "a", "v">>, <<".", "p", "d", "f">>, <<".", "z", "i", "p">>, <<".", "t", "t", "f">>, <<".", "w", "o", "f", "f">>,
     <<".", "w", "o", "f", "f", "2">>}

buildArtifacts ==
    <<<<".", "e", "x", "e">>, <<".", "d", "l", "l">>, <<".", "s", "o">>, <<".", "d", "y", "l", "i", "b">>, <<".", "o">>, <<".", "a">>, <<".", "c", "l", "a", "s", "s">>,
      <<".", "p", "y", "c">>>>

configFiles ==
    <<<<"c", "o", "n", "f", "i", "g">>, <<".", "e", "n", "v">>, <<".", "y", "m", "l">>, <<".", "y", "a", "m", "l">>, <<".", "t", "o", "m", "l">>, <<".", "i", "n", "i">>,
      <<".", "c", "o", "n", "f">>, <<".", "j", "s", "o", "n">>>>

docExts == <<<<".", "m", "d">>, <<".", "t", "x", "t">>, <<".", "r", "s", "t">>, <<".", "a", "d", "o", "c">>>>

\* Mutant of categorizeFile: the directory rule is tried first.
categorizeFileDependencyFirst(path, ext) ==
    LET lowerPath == ToLower(path)
        lowerExt == ToLower(ext)
    IN IF \/ Contains(lowerPath, <<"n", "o", "d", "e", "_", "m", "o", "d", "u", "l", "e", "s">>)
          \/ Contains(lowerPath, <<"v", "e", "n", "d", "o", "r">>)
          \/ Contains(lowerPath, <<"p", "a", "c", "k", "a", "g", "e", "s">>)
       THEN CategoryDependency
       ELSE IF lowerExt \in sourceExts
       THEN IF \/ Contains(lowerPath, <<"_", "t", "e", "s", "t", ".">>)
               \/ Contains(lowerPath, <<".", "t", "e", "s", "t", ".">>)
               \/ Contains(lowerPath, <<"/", "t", "e", "s", "t", "/">>)
               \/ Contains(lowerPath, <<"\\", "t", "e", "s", "t", "\\">>)
            THEN CategoryTest ELSE CategorySource
       ELSE IF lowerExt \in assetExts THEN CategoryAsset
       ELSE IF \E i \in DOMAIN buildArtifacts : lowerExt = buildArtifacts[i]
       THEN CategoryBuildArtifact
       ELSE IF \E i \in DOMAIN configFiles : Contains(lowerPath, configFiles[i])
       THEN CategoryConfig
       ELSE IF \E i \in DOMAIN docExts : lowerExt = docExts[i]
       THEN CategoryDocumentation
       ELSE CategoryOther

categorizeFile(path, ext) ==
    LET lowerPath == ToLower(path)
        lowerExt == ToLower(ext)
    IN IF lowerExt \in sourceExts
       THEN IF \/ Contains(lowerPath, <<"_", "t", "e", "s", "t", ".">>)
               \/ Contains(lowerPath, <<".", "t", "e", "s", "t", ".">>)
               \/ Contains(lowerPath, <<"/", "t", "e", "s", "t", "/">>)
               \/ Contains(lowerPath, <<"\\", "t", "e", "s", "t", "\\">>)
            THEN CategoryTest ELSE CategorySource
       ELSE IF lowerExt \in assetExts THEN CategoryAsset
       ELSE IF \E i \in DOMAIN buildArtifacts : lowerExt = buildArtifacts[i]
       THEN CategoryBuildArtifact
       ELSE IF \/ Contains(lowerPath, <<"n", "o", "d", "e", "_", "m", "o", "d", "u", "l", "e", "s">>)
               \/ Contains(lowerPath, <<"v", "e", "n", "d", "o", "r">>)
               \/ Contains(lowerPath, <<"p", "a", "c", "k", "a", "g", "e", "s">>)
       THEN CategoryDependency
       ELSE IF \E i \in DOMAIN configFiles : Contains(lowerPath, configFiles[i])
       THEN CategoryConfig
       ELSE IF \E i \in DOMAIN docExts : lowerExt = docExts[i]
       THEN CategoryDocumentation
       ELSE CategoryOther

\* Mutant of updateCategoryCounts: no default case, so a file of a category
\* without a counter of its own is not counted.
updateCategoryCountsNoDefault(cat, category) ==
    CASE category = CategorySource -> [cat EXCEPT !.SourceFiles = @ + 1]
      [] category = CategoryAsset -> [cat EXCEPT !.AssetFiles = @ + 1]
      [] category = CategoryDependency -> [cat EXCEPT !.DependencyFiles = @ + 1]
      [] category = CategoryBuildArtifact -> [cat EXCEPT !.BuildArtifacts = @ + 1]
      [] category = CategoryConfig -> [cat EXCEPT !.ConfigFiles = @ + 1]
      [] category = CategoryDocumentation ->
            [cat EXCEPT !.DocumentationFiles = @ + 1]
      [] category = CategoryTest -> [cat EXCEPT !.TestFiles = @ + 1]
      [] OTHER -> cat

updateCategoryCounts(cat, category) ==
    CASE category = CategorySource -> [cat EXCEPT !.SourceFiles = @ + 1]
      [] category = CategoryAsset -> [cat EXCEPT !.AssetFiles = @ + 1]
      [] category = CategoryDependency -> [cat EXCEPT !.DependencyFiles = @ + 1]
      [] category = CategoryBuildArtifact -> [cat EXCEPT !.BuildArtifacts = @ + 1]
      [] category = CategoryConfig -> [cat EXCEPT !.ConfigFiles = @ + 1]
      [] category = CategoryDocumentation ->
            [cat EXCEPT !.DocumentationFiles = @ + 1]
      [] category = CategoryTest -> [cat EXCEPT !.TestFiles = @ + 1]
      [] OTHER -> [cat EXCEPT !.OtherFiles = @ + 1]

\* The path ScanFileSystem is given.
RootPath == <<"p">>

NameSrc == <<"s", "r", "c">>
NameGit == <<".", "g", "i", "t">>
NameNodeModules == <<"n", "o", "d", "e", "_", "m", "o", "d", "u", "l", "e", "s">>

\* The files SpecFS meets: a small source file and a larger one without
\* extension.
FileKinds == {[Size |-> 1, Ext |-> <<".", "g", "o">>], [Size |-> 2, Ext |-> <<>>]}
DirNames == {NameSrc, NameGit, NameNodeModules}

ScanOptionsSet ==
    {[ExcludeDirs |-> <<NameNodeModules>>, SkipHidden |-> FALSE, OnlyExts |-> {}],
     [ExcludeDirs |-> <<>>, SkipHidden |-> TRUE, OnlyExts |-> {}]}

\* strings.HasPrefix(name, ".")
HasDotPrefix(name) == Len(name) >= 1 /\ name[1] = "."

shouldSkipDir(name, o) ==
    \/ o.SkipHidden /\ HasDotPrefix(name)
    \/ \E i \in DOMAIN o.ExcludeDirs : name = o.ExcludeDirs[i]

\* What Walk can hand to the callback when n files have been counted: a
\* directory, the next file, or an entry it failed to stat or read
\* (err # nil).
WalkEntries(n) ==
    {[IsDir |-> TRUE, Name |-> d, Path |-> Join(RootPath, d), Size |-> 0,
      Err |-> FALSE] : d \in DirNames}
    \cup {[IsDir |-> FALSE, Name |-> <<"f">> \o Itoa(n + 1) \o k.Ext,
           Path |-> Join(RootPath, <<"f">> \o Itoa(n + 1) \o k.Ext),
           Size |-> k.Size, Err |-> FALSE] : k \in FileKinds}
    \cup {[IsDir |-> FALSE, Name |-> <<"f">>, Path |-> Join(RootPath, <<"f">>),
           Size |-> 0, Err |-> TRUE]}

RootEntry ==
    [IsDir |-> TRUE, Name |-> RootPath, Path |-> RootPath, Size |-> 0,
     Err |-> FALSE]

EmptyFileSystemEvidence ==
    [TotalFiles |-> 0, TotalDirectories |-> 0, TotalSize |-> 0,
     FileTypes |-> [e \in {} |-> 0], LargestFiles |-> <<>>,
     SkippedDirs |-> <<>>, SkippedDirsCount |-> 0,
     CategorizedFiles |->
        [SourceFiles |-> 0, AssetFiles |-> 0, DependencyFiles |-> 0,
         BuildArtifacts |-> 0, ConfigFiles |-> 0, DocumentationFiles |-> 0,
         TestFiles |-> 0, OtherFiles |-> 0]]

\* evidence.FileTypes[ext]++ on a Go map: a missing key counts from 0.
IncrementKey(m, k) ==
    [x \in DOMAIN m \cup {k} |-> IF x = k THEN (IF k \in DOMAIN m THEN m[k] ELSE 0) + 1
                                  ELSE m[x]]

\* The callback handed to filepath.Walk: the evidence after it ran, and what
\* it returned ("nil" or "SkipDir").
WalkFn(ev, entry, o) ==
    IF entry.Err THEN [ev |-> ev, ret |-> "nil"]
    ELSE IF entry.IsDir /\ shouldSkipDir(entry.Name, o)
    THEN [ev |-> [ev EXCEPT !.SkippedDirs = Append(@, entry.Name),
                             !.SkippedDirsCount = @ + 1],
          ret |-> "SkipDir"]
    ELSE IF entry.IsDir
    THEN [ev |-> [ev EXCEPT !.TotalDirectories = @ + 1], ret |-> "nil"]
    ELSE LET suffix == Ext(entry.Path)
             ext == IF suffix = <<>> THEN NoExtension ELSE suffix
             category == categorizeFile(entry.Path, ext)
             fileInfo == [Path |-> entry.Path, Size |-> entry.Size,
                          Type |-> ext, Category |-> category]
         IN [ev |-> [ev EXCEPT !.TotalFiles = @ + 1,
                                !.TotalSize = @ + entry.Size,
                                !.FileTypes = IncrementKey(@, ext),
                                !.CategorizedFiles =
                                    updateCategoryCounts(@, category),
                                !.LargestFiles = Append(@, fileInfo)],
             ret |-> "nil"]

\* What filepath.Walk returns given what its callback returned: SkipDir is
\* consumed by Walk, any other error ends the walk and is returned.
WalkReturn(ret) == IF ret \in {"nil", "SkipDir"} THEN "nil" ELSE ret

Swap(l, a, b) == [l EXCEPT ![a] = l[b], ![b] = l[a]]

\* Mutant of LargestInner: neighbours of equal size are exchanged too.
RECURSIVE LargestInnerSwapEqual(_, _, _)
LargestInnerSwapEqual(l, j, limit) ==
    IF j >= limit THEN l
    ELSE LargestInnerSwapEqual(IF l[j + 1].Size <= l[j + 2].Size
                               THEN Swap(l, j + 1, j + 2) ELSE l,
                               j + 1, limit)

\* The inner loop: for j := 0; j < limit; j++ (indices from 0 in the code).
RECURSIVE LargestInner(_, _, _)
LargestInner(l, j, limit) ==
    IF j >= limit THEN l
    ELSE LargestInner(IF l[j + 1].Size < l[j + 2].Size
                      THEN Swap(l, j + 1, j + 2) ELSE l,
                      j + 1, limit)

\* The outer loop: for i := 0; i < len-1; i++.
RECURSIVE LargestOuter(_, _)
LargestOuter(l, i) ==
    IF i >= Len(l) - 1 THEN l
    ELSE LargestOuter(LargestInner(l, 0, Len(l) - i - 1), i + 1)

\* "Sort and keep only top 10 largest files".
SortAndTruncate(l) ==
    IF Len(l) > 1
    THEN LET sorted == LargestOuter(l, 0) IN
         IF Len(sorted) > TopLargest THEN SubSeq(sorted, 1, TopLargest) ELSE sorted
    ELSE l

InitFS ==
    /\ pc = "fsStart"
    /\ root \in {"ok", "missing", "unreadable"}
    /\ opts \in ScanOptionsSet
    /\ fsEvidence = EmptyFileSystemEvidence
    /\ walked = <<>>
    /\ pruning = FALSE
    /\ fsErr = "nil"
    /\ findings = None
    /\ IdleScan /\ IdleHealth /\ IdleContext /\ IdleTop /\ IdleGit

\* Walk starts: os.Lstat(root).  When it fails the callback is called once with
\* the error and the walk is over; otherwise the callback gets the root
\* directory, and, when the directory cannot be read, is called a second time
\* with the error, which ends the walk as well.
FsWalkRoot ==
    /\ pc = "fsStart"
    /\ LET first == IF root = "missing" THEN [RootEntry EXCEPT !.Err = TRUE]
                    ELSE RootEntry
           r1 == WalkFn(fsEvidence, first, opts)
           r2 == IF root = "unreadable" /\ r1.ret = "nil"
                 THEN WalkFn(r1.ev, [RootEntry EXCEPT !.Err = TRUE], opts)
                 ELSE r1
       IN /\ fsEvidence' = r2.ev
          /\ fsErr' = IF WalkReturn(r1.ret) # "nil" THEN WalkReturn(r1.ret)
                      ELSE WalkReturn(r2.ret)
          /\ pc' = IF root = "ok" /\ WalkReturn(r1.ret) = "nil" /\ r1.ret # "SkipDir"
                   THEN "fsWalk" ELSE "fsWalked"
    /\ UNCHANGED <<root, opts, walked, pruning, findings, healthVars, ctxVars, scanVars,
                   topVars, gitVars>>

\* Walk meets the next entry outside any skipped subtree and calls the callback.
FsVisit ==
    /\ pc = "fsWalk"
    /\ \E entry \in WalkEntries(fsEvidence.TotalFiles) :
        LET r == WalkFn(fsEvidence, entry, opts) IN
        /\ r.ev.TotalFiles <= MaxFiles
        /\ (r.ev.TotalDirectories - 1) + r.ev.SkippedDirsCount <= MaxDirs
        /\ fsEvidence' = r.ev
        /\ walked' = IF r.ev.TotalFiles > fsEvidence.TotalFiles
                     THEN Append(walked, [Path |-> entry.Path,
                                          Size |-> entry.Size])
                     ELSE walked
        /\ pruning' = (r.ret = "SkipDir")
        /\ fsErr' = WalkReturn(r.ret)
        /\ pc' = IF WalkReturn(r.ret) = "nil" THEN "fsWalk" ELSE "fsWalked"
    /\ UNCHANGED <<root, opts, findings, healthVars, ctxVars, scanVars, topVars, gitVars>>

\* Walk has returned (the tree is exhausted, or the walk ended at the root):
\* sort, truncate, return evidence and err.
FsReturn ==
    /\ pc \in {"fsWalk", "fsWalked"}
    /\ fsEvidence' = [fsEvidence EXCEPT !.LargestFiles = SortAndTruncate(@)]
    /\ pruning' = FALSE
    /\ pc' = "fsDone"
    /\ UNCHANGED <<root, opts, walked, fsErr, findings, healthVars, ctxVars, scanVars,
                   topVars, gitVars>>

NextFS == FsWalkRoot \/ FsVisit \/ FsReturn

SpecFS == InitFS /\ [][NextFS]_vars

\* The place of a counted file in the encounter order.
Pos(path) == CHOOSE i \in DOMAIN walked : walked[i].Path = path

\* f comes before g in a stable descending-by-size order of the walk.
Before(f, g) ==
    f.Size > g.Size \/ (f.Size = g.Size /\ Pos(f.Path) < Pos(g.Path))

Range(l) == {l[i] : i \in DOMAIN l}

\* C6: after scanFileSystem LargestFiles is the first 10 elements of the
\* stable descending-by-size sort of the files counted, in encounter order:
\* its length is min(10, number of files), it holds counted files only, sizes
\* are non-increasing with files of equal size in encounter order, and every
\* file left out comes after every file kept.
C6_LargestFiles ==
    pc = "fsDone" =>
        LET L == fsEvidence.LargestFiles
            kept == {[Path |-> L[i].Path, Size |-> L[i].Size] : i \in DOMAIN L}
        IN /\ Len(L) = min(TopLargest, Len(walked))
           /\ kept \subseteq Range(walked)
           /\ \A i \in DOMAIN L : L[i].Type \in {<<".", "g", "o">>, NoExtension}
           /\ \A i \in 1..(Len(L) - 1) : Before(L[i], L[i + 1])
           /\ \A f \in Range(walked) \ kept : \A g \in kept : Before(g, f)

\* C6 witness: more than 10 files were counted, the first of them is the
\* smaller kind and is left out, and files of equal size are kept.
C6_Witness ==
    /\ pc = "fsDone"
    /\ Len(walked) > TopLargest
    /\ walked[1].Size = 1
    /\ Len(fsEvidence.LargestFiles) = TopLargest
    /\ fsEvidence.LargestFiles[1].Size = 2
    /\ fsEvidence.LargestFiles[2].Size = 2
    /\ fsEvidence.LargestFiles[TopLargest].Size = 1
    /\ Pos(fsEvidence.LargestFiles[TopLargest].Path) > 1

\* C9: when the root path does not exist or cannot be read, scanFileSystem
\* returns a non-nil error.
C9_RootErrorReturned ==
    (pc = "fsDone" /\ root \in {"missing", "unreadable"}) => fsErr # "nil"

(***************************************************************************)
(* categorizeFile, as the callback of ScanFileSystem applies it to one     *)
(* file: SpecCategorize hands the callback a single file whose path is     *)
(* drawn from directories, base names and extensions that meet every rule. *)
(***************************************************************************)
CatDirs ==
    {<<>>, <<"v", "e", "n", "d", "o", "r", "/">>, <<"s", "r", "c", "/">>, <<"s", "r", "c", "/", "t", "e", "s", "t", "/">>, <<"c", "o", "n", "f", "i", "g", "/">>, <<"d", "o", "c", "s", "/">>}
CatBases == {<<"m", "a", "i", "n">>, <<"m", "a", "i", "n", "_", "t", "e", "s", "t">>, <<"R", "E", "A", "D", "M", "E">>, <<"s", "e", "t", "t", "i", "n", "g", "s">>}
CatExts ==
    {<<>>, <<".", "g", "o">>, <<".", "P", "Y">>, <<".", "t", "s">>, <<".", "p", "n", "g">>, <<".", "e", "x", "e">>, <<".", "m", "d">>, <<".", "j", "s", "o", "n">>,
     <<".", "t", "x", "t">>}

CategorizeEntries ==
    {[IsDir |-> FALSE, Name |-> b \o e, Path |-> Join(RootPath, d \o b \o e),
      Size |-> 1, Err |-> FALSE] : d \in CatDirs, b \in CatBases, e \in CatExts}

InitCategorize ==
    /\ pc = "catStart"
    /\ root = "ok"
    /\ opts \in ScanOptionsSet
    /\ fsEvidence = EmptyFileSystemEvidence
    /\ walked = <<>>
    /\ pruning = FALSE
    /\ fsErr = "nil"
    /\ findings = None
    /\ IdleScan /\ IdleHealth /\ IdleContext /\ IdleTop /\ IdleGit

\* The callback is called with one file.
CategorizeVisit ==
    /\ pc = "catStart"
    /\ \E entry \in CategorizeEntries :
        LET r == WalkFn(fsEvidence, entry, opts) IN
        /\ fsEvidence' = r.ev
        /\ walked' = Append(walked, [Path |-> entry.Path, Size |-> entry.Size])
        /\ fsErr' = WalkReturn(r.ret)
    /\ pc' = "catDone"
    /\ UNCHANGED <<root, opts, pruning, findings, healthVars, ctxVars, scanVars, topVars,
                   gitVars>>

NextCategorize == CategorizeVisit

SpecCategorize == InitCategorize /\ [][NextCategorize]_vars

\* The rules of the specification, in its order, for a path: whether the
\* rule matches, and the category it assigns.
C13_Rules(path) ==
    LET lowerPath == ToLower(path)
        lowerExt == ToLower(Ext(path))
        InSeq(x, l) == \E i \in DOMAIN l : l[i] = x
        testMarker == \/ Contains(lowerPath, <<"_", "t", "e", "s", "t", ".">>)
                      \/ Contains(lowerPath, <<".", "t", "e", "s", "t", ".">>)
                      \/ Contains(lowerPath, <<"/", "t", "e", "s", "t", "/">>)
                      \/ Contains(lowerPath, <<"\\", "t", "e", "s", "t", "\\">>)
    IN << [hit |-> lowerExt \in sourceExts /\ testMarker, cat |-> CategoryTest],
          [hit |-> lowerExt \in sourceExts, cat |-> CategorySource],
          [hit |-> lowerExt \in assetExts, cat |-> CategoryAsset],
          [hit |-> InSeq(lowerExt, buildArtifacts), cat |-> CategoryBuildArtifact],
          [hit |-> \/ Contains(lowerPath, <<"n", "o", "d", "e", "_", "m", "o", "d", "u", "l", "e", "s">>)
                   \/ Contains(lowerPath, <<"v", "e", "n", "d", "o", "r">>)
                   \/ Contains(lowerPath, <<"p", "a", "c", "k", "a", "g", "e", "s">>),
           cat |-> CategoryDependency],
          [hit |-> \E i \in DOMAIN configFiles : Contains(lowerPath, configFiles[i]),
           cat |-> CategoryConfig],
          [hit |-> InSeq(lowerExt, docExts), cat |-> CategoryDocumentation],
          [hit |-> TRUE, cat |-> CategoryOther] >>

C13_FirstMatch(path) ==
    LET rules == C13_Rules(path)
        first == CHOOSE i \in DOMAIN rules :
                    rules[i].hit /\ \A j \in 1..(i - 1) : ~rules[j].hit
    IN rules[first].cat

TopN == 5

\* A float64 quotient, kept as the operands of the division.
Ratio(n, d) == [num |-> n, den |-> d]

\* The inner loop of the exchange sort on Commits.
RECURSIVE ContribInner(_, _, _)
ContribInner(l, j, limit) ==
    IF j >= limit THEN l
    ELSE ContribInner(IF l[j + 1].Commits < l[j + 2].Commits
                      THEN Swap(l, j + 1, j + 2) ELSE l,
                      j + 1, limit)

\* The outer loop: for i := 0; i < len-1 && i < 5; i++.
RECURSIVE ContribOuter(_, _)
ContribOuter(l, i) ==
    IF ~(i < Len(l) - 1 /\ i < TopN) THEN l
    ELSE ContribOuter(ContribInner(l, 0, Len(l) - i - 1), i + 1)

\* "Sort by commits (simple bubble sort for top 5)" and the slice taken.
SelectTopContributors(l) ==
    LET sorted == ContribOuter(l, 0) IN
    IF Len(sorted) > TopN THEN SubSeq(sorted, 1, TopN) ELSE sorted

RECURSIVE SumSeq(_)
SumSeq(q) == IF q = <<>> THEN 0 ELSE Head(q) + SumSeq(Tail(q))

\* The list ranging over a map with these commit counts can give.
ContributorListOf(counts) ==
    [i \in DOMAIN counts |->
        [Name |-> i, Email |-> i, Commits |-> counts[i],
         Percent |-> Ratio(counts[i] * 100, SumSeq(counts))]]

InitTop ==
    /\ pc = "top"
    /\ \E counts \in SeqUpTo({1, 2}, MaxContributors) :
            contributorList = ContributorListOf(counts)
    /\ topContributors = None
    /\ findings = None
    /\ IdleScan /\ IdleHealth /\ IdleContext /\ IdleFS /\ IdleGit

SelectTop ==
    /\ pc = "top"
    /\ topContributors' = SelectTopContributors(contributorList)
    /\ pc' = "topDone"
    /\ UNCHANGED <<contributorList, findings, healthVars, ctxVars, scanVars, fsVars, gitVars>>

NextTop == SelectTop

SpecTop == InitTop /\ [][NextTop]_vars

\* C7: for any number of contributors and any iteration order of the map,
\* TopContributors has length min(5, number of contributors), holds distinct
\* contributors of the map, and no contributor left out of it has strictly
\* more commits than one that is in it.
C7_TopHoldsHighest ==
    pc = "topDone" =>
        LET in == Range(topContributors)
            out == Range(contributorList) \ in
        IN /\ Len(topContributors) = min(TopN, Len(contributorList))
           /\ in \subseteq Range(contributorList)
           /\ Cardinality(in) = Len(topContributors)
           /\ \A o \in out : \A t \in in : o.Commits <= t.Commits

\* C8: for any number of contributors and any iteration order of the map,
\* each entry of TopContributors has at least as many commits as the next.
C8_TopNonIncreasing ==
    pc = "topDone" =>
        \A i \in 1..(Len(topContributors) - 1) :
            topContributors[i].Commits >= topContributors[i + 1].Commits

(***************************************************************************)
(* GitHistoryAnalyzer: AnalyzeRepository.                                  *)
(* Times are whole days; 0 is the zero time.Time.  The answers of the      *)
(* repository (open, head, log, the commits, the worktree, the branches)   *)
(* are drawn when the function asks for them.                              *)
(***************************************************************************)
RecentCap == 10
Now == 200

\* A commit message: its text, the length of the trimmed text, and whether
\* the trimmed text starts with "WIP" or "fix".
MsgScanner == [Text |-> "Add scanner options", Len |-> 19, Prefix |-> ""]
MsgWip == [Text |-> "WIP", Len |-> 3, Prefix |-> "WIP"]
MsgFix == [Text |-> "fix typo in the docs", Len |-> 20, Prefix |-> "fix"]
MsgInit == [Text |-> "init", Len |-> 4, Prefix |-> ""]

\* The commits the iterator can yield.
Commits ==
    {[Email |-> "ann@x", Name |-> "Ann", When |-> 100, Message |-> MsgScanner],
     [Email |-> "ann@x", Name |-> "Ann B", When |-> 195, Message |-> MsgWip],
     [Email |-> "bob@x", Name |-> "Bob", When |-> 150, Message |-> MsgFix],
     [Email |-> "bob@x", Name |-> "Bob", When |-> 195, Message |-> MsgInit]}

ZeroFloat == Ratio(0, 1)

ZeroGitEvidence ==
    [IsRepository |-> FALSE, TotalCommits |-> 0, Contributors |-> 0,
     FirstCommitDate |-> 0, LastCommitDate |-> 0, RecentActivity |-> <<>>,
     CommitFrequency |-> [Last7Days |-> 0, Last30Days |-> 0, Last90Days |-> 0,
                          AveragePerWeek |-> ZeroFloat],
     TopContributors |-> <<>>, UncommittedChanges |-> FALSE, BranchCount |-> 0,
     CommitMessageQuality |-> ZeroFloat]

\* Mutant of ReturnEvidence: the error of the failed call is handed on.
ReturnEvidenceAndError(evidence, err) == [evidence |-> evidence, err |-> err]

\* The early returns and the final one: return evidence, nil.
ReturnEvidence(evidence, err) == [evidence |-> evidence, err |-> "nil"]


InitGit ==
    /\ pc = "gitOpen"
    /\ repo = "unopened"
    /\ gitEvidence = ZeroGitEvidence
    /\ gitErr = None
    /\ contributors = None
    /\ recentCommits = None
    /\ commitCount = None
    /\ firstCommit = None
    /\ lastCommit = None
    /\ windowCounts = None
    /\ goodMessages = None
    /\ contributorList = None
    /\ topContributors = None
    /\ findings = None
    /\ IdleScan /\ IdleHealth /\ IdleContext /\ IdleFS

\* git.PlainOpen
GitOpen ==
    /\ pc = "gitOpen"
    /\ \E ok \in BOOLEAN :
        IF ok
        THEN /\ gitEvidence' = [gitEvidence EXCEPT !.IsRepository = TRUE]
             /\ repo' = "opened"
             /\ pc' = "gitHead"
             /\ UNCHANGED gitErr
        ELSE LET r == ReturnEvidence(gitEvidence, "repository does not exist") IN
             /\ gitEvidence' = r.evidence
             /\ gitErr' = r.err
             /\ repo' = "absent"
             /\ pc' = "gitDone"
    /\ UNCHANGED <<contributors, recentCommits, commitCount, firstCommit,
                   lastCommit, windowCounts, goodMessages, topVars, findings,
                   healthVars, ctxVars, scanVars, fsVars>>

\* repo.Head
GitHead ==
    /\ pc = "gitHead"
    /\ \E ok \in BOOLEAN :
        IF ok
        THEN /\ repo' = "head"
             /\ pc' = "gitLog"
             /\ UNCHANGED <<gitEvidence, gitErr>>
        ELSE LET r == ReturnEvidence(gitEvidence, "reference not found") IN
             /\ gitEvidence' = r.evidence
             /\ gitErr' = r.err
             /\ repo' = "noHead"
             /\ pc' = "gitDone"
    /\ UNCHANGED <<contributors, recentCommits, commitCount, firstCommit,
                   lastCommit, windowCounts, goodMessages, topVars, findings,
                   healthVars, ctxVars, scanVars, fsVars>>

\* repo.Log, and the locals declared before the iteration
GitLog ==
    /\ pc = "gitLog"
    /\ \E ok \in BOOLEAN :
        IF ok
        THEN /\ repo' = "log"
             /\ pc' = "gitIter"
             /\ contributors' = [e \in {} |-> 0]
             /\ recentCommits' = <<>>
             /\ commitCount' = 0
             /\ firstCommit' = 0
             /\ lastCommit' = 0
             /\ windowCounts' = [d7 |-> 0, d30 |-> 0, d90 |-> 0]
             /\ goodMessages' = 0
             /\ UNCHANGED <<gitEvidence, gitErr>>
        ELSE LET r == ReturnEvidence(gitEvidence, "object not found") IN
             /\ gitEvidence' = r.evidence
             /\ gitErr' = r.err
             /\ repo' = "noLog"
             /\ pc' = "gitDone"
             /\ UNCHANGED <<contributors, recentCommits, commitCount,
                            firstCommit, lastCommit, windowCounts, goodMessages>>
    /\ UNCHANGED <<topVars, findings, healthVars, ctxVars, scanVars, fsVars>>

\* Mutant of TrackContributor: a later commit overwrites the name.
TrackContributorRenaming(contribs, c) ==
    [e \in DOMAIN contribs \cup {c.Email} |->
        IF e = c.Email
        THEN [Name |-> c.Name, Email |-> c.Email,
              Commits |-> IF e \in DOMAIN contribs THEN contribs[e].Commits + 1 ELSE 1,
              Percent |-> ZeroFloat]
        ELSE contribs[e]]

\* "Track contributors": the map after the callback has seen commit c.
TrackContributor(contribs, c) ==
    IF c.Email \in DOMAIN contribs
    THEN [contribs EXCEPT ![c.Email].Commits = @ + 1]
    ELSE [e \in DOMAIN contribs \cup {c.Email} |->
              IF e = c.Email
              THEN [Name |-> c.Name, Email |-> c.Email, Commits |-> 1,
                    Percent |-> ZeroFloat]
              ELSE contribs[e]]

\* The callback of commitIter.ForEach, on one commit of those the iterator
\* can yield, in a history of at most the given number of commits.
ForEachCommit(yielded, limit) ==
    /\ pc = "gitIter"
    /\ commitCount < limit
    /\ \E c \in yielded :
        LET daysSince == Now - c.When IN
        /\ commitCount' = commitCount + 1
        /\ contributors' = TrackContributor(contributors, c)
        /\ firstCommit' = IF firstCommit = 0 \/ c.When < firstCommit
                          THEN c.When ELSE firstCommit
        /\ lastCommit' = IF lastCommit = 0 \/ c.When > lastCommit
                         THEN c.When ELSE lastCommit
        /\ windowCounts' =
              [d7 |-> windowCounts.d7 + (IF daysSince <= 7 THEN 1 ELSE 0),
               d30 |-> windowCounts.d30 + (IF daysSince <= 30 THEN 1 ELSE 0),
               d90 |-> windowCounts.d90 + (IF daysSince <= 90 THEN 1 ELSE 0)]
        /\ goodMessages' =
              IF c.Message.Len > 10 /\ c.Message.Prefix \notin {"WIP", "fix"}
              THEN goodMessages + 1 ELSE goodMessages
        /\ recentCommits' =
              IF Len(recentCommits) < RecentCap
              THEN Append(recentCommits,
                          [Hash |-> commitCount + 1, Author |-> c.Name,
                           Date |-> c.When, Message |-> c.Message.Text])
              ELSE recentCommits
    /\ UNCHANGED <<pc, repo, gitEvidence, gitErr, topVars, findings, healthVars,
                   ctxVars, scanVars, fsVars>>

GitCommit == ForEachCommit(Commits, MaxCommits)

\* ForEach has returned (its error is not looked at): the rest of the function.
GitFinish ==
    /\ pc = "gitIter"
    /\ \E order \in Orders(DOMAIN contributors),
          status \in {"clean", "dirty", "error"},
          branches \in {[ok |-> FALSE, n |-> 0], [ok |-> TRUE, n |-> 1],
                        [ok |-> TRUE, n |-> 2]} :
        LET list == [i \in DOMAIN order |->
                        [contributors[order[i]] EXCEPT
                            !.Percent = Ratio(contributors[order[i]].Commits * 100,
                                              commitCount)]]
            top == SelectTopContributors(list)
            perWeek == IF commitCount > 0 /\ firstCommit # 0 /\ Now - firstCommit > 0
                       THEN Ratio(commitCount * 7, Now - firstCommit)
                       ELSE gitEvidence.CommitFrequency.AveragePerWeek
            quality == IF commitCount > 0 THEN Ratio(goodMessages, commitCount)
                       ELSE gitEvidence.CommitMessageQuality
            evidence ==
                [gitEvidence EXCEPT
                    !.TotalCommits = commitCount,
                    !.Contributors = Cardinality(DOMAIN contributors),
                    !.FirstCommitDate = firstCommit,
                    !.LastCommitDate = lastCommit,
                    !.RecentActivity = recentCommits,
                    !.CommitFrequency =
                        [Last7Days |-> windowCounts.d7,
                         Last30Days |-> windowCounts.d30,
                         Last90Days |-> windowCounts.d90,
                         AveragePerWeek |-> perWeek],
                    !.CommitMessageQuality = quality,
                    !.TopContributors = top,
                    !.UncommittedChanges = IF status = "error" THEN @
                                            ELSE status = "dirty",
                    !.BranchCount = IF branches.ok THEN branches.n ELSE @]
            r == ReturnEvidence(evidence, "nil")
        IN /\ contributorList' = list
           /\ topContributors' = top
           /\ gitEvidence' = r.evidence
           /\ gitErr' = r.err
    /\ pc' = "gitDone"
    /\ UNCHANGED <<repo, contributors, recentCommits, commitCount, firstCommit,
                   lastCommit, windowCounts, goodMessages, findings, healthVars,
                   ctxVars, scanVars, fsVars>>

NextGit == GitOpen \/ GitHead \/ GitLog \/ GitCommit \/ GitFinish

SpecGit == InitGit /\ [][NextGit]_vars

\* C10: analyzeRepository returns a nil error on every path (the repository
\* cannot be opened, the head cannot be resolved, the log cannot be read, the
\* iteration is over); when the repository cannot be opened it returns
\* IsRepository = false with every count, date, list and flag at its zero
\* value.
C10_NeverAnError ==
    pc = "gitDone" =>
        /\ gitErr = "nil"
        /\ repo = "absent" =>
              /\ gitEvidence.IsRepository = FALSE
              /\ gitEvidence.TotalCommits = 0
              /\ gitEvidence.Contributors = 0
              /\ gitEvidence.FirstCommitDate = 0
              /\ gitEvidence.LastCommitDate = 0
              /\ gitEvidence.RecentActivity = <<>>
              /\ gitEvidence.CommitFrequency.Last7Days = 0
              /\ gitEvidence.CommitFrequency.Last30Days = 0
              /\ gitEvidence.CommitFrequency.Last90Days = 0
              /\ gitEvidence.CommitFrequency.AveragePerWeek = ZeroFloat
              /\ gitEvidence.TopContributors = <<>>
              /\ gitEvidence.UncommittedChanges = FALSE
              /\ gitEvidence.BranchCount = 0
              /\ gitEvidence.CommitMessageQuality = ZeroFloat

\* C10 witness: the repository could not be opened and the function returned.
C10_Witness ==
    /\ pc = "gitDone"
    /\ repo = "absent"
    /\ gitErr = "nil"
    /\ gitEvidence.IsRepository = FALSE

(***************************************************************************)
(* Text: characters, and the regular expressions of package regexp that    *)
(* the scanners compile.  A line is a sequence of characters; a pattern is *)
(* a syntax tree, matched the way regexp.MatchString matches: somewhere in *)
(* the line, leftmost position first.                                      *)
(***************************************************************************)
\* The printable ASCII characters, from code 32 on; GRAVE stands for the grave
\* accent, code 96.
Ascii ==
    <<" ", "!", "\"", "#", "$", "%", "&", "'", "(", ")", "*", "+",
      ",", "-", ".", "/", "0", "1", "2", "3", "4", "5", "6", "7",
      "8", "9", ":", ";", "<", "=", ">", "?", "@", "A", "B", "C",
      "D", "E", "F", "G", "H", "I", "J", "K", "L", "M", "N", "O",
      "P", "Q", "R", "S", "T", "U", "V", "W", "X", "Y", "Z", "[",
      "\\", "]", "^", "_", "GRAVE", "a", "b", "c", "d", "e", "f", "g",
      "h", "i", "j", "k", "l", "m", "n", "o", "p", "q", "r", "s",
      "t", "u", "v", "w", "x", "y", "z", "{", "|", "}", "~">>

\* The byte of a character.
Code(c) == 31 + (CHOOSE i \in DOMAIN Ascii : Ascii[i] = c)

LowerSet == {LowerCase[i] : i \in DOMAIN LowerCase}
UpperSet == {UpperCase[i] : i \in DOMAIN UpperCase}
DigitSet == {Digits[i] : i \in DOMAIN Digits}
\* The class \s of the lines the model reads (lines hold no control bytes).
SpaceSet == {" "}

ToUpperChar(c) ==
    IF \E i \in DOMAIN LowerCase : LowerCase[i] = c
    THEN UpperCase[CHOOSE i \in DOMAIN LowerCase : LowerCase[i] = c]
    ELSE c

\* strings.TrimSpace
RECURSIVE TrimSpace(_)
TrimSpace(s) ==
    IF s = <<>> THEN s
    ELSE IF Head(s) \in SpaceSet THEN TrimSpace(Tail(s))
    ELSE IF s[Len(s)] \in SpaceSet THEN TrimSpace(SubSeq(s, 1, Len(s) - 1))
    ELSE s

\* strings.HasSuffix
HasSuffix(s, suffix) ==
    /\ Len(s) >= Len(suffix)
    /\ SubSeq(s, Len(s) - Len(suffix) + 1, Len(s)) = suffix

\* The nodes of a pattern's syntax tree.
ReLit(c) ==
    [op |-> "lit", c |-> c, set |-> {}, neg |-> FALSE, kids |-> <<>>,
     lo |-> 0, hi |-> 0]
ReAny ==
    [op |-> "any", c |-> "", set |-> {}, neg |-> FALSE, kids |-> <<>>,
     lo |-> 0, hi |-> 0]
ReClass(set, neg) ==
    [op |-> "class", c |-> "", set |-> set, neg |-> neg, kids |-> <<>>,
     lo |-> 0, hi |-> 0]
ReSeq(kids) ==
    [op |-> "seq", c |-> "", set |-> {}, neg |-> FALSE, kids |-> kids,
     lo |-> 0, hi |-> 0]
ReAlt(kids) ==
    [op |-> "alt", c |-> "", set |-> {}, neg |-> FALSE, kids |-> kids,
     lo |-> 0, hi |-> 0]
\* kid{lo,hi}; hi = -1 stands for no upper limit.
ReRep(kid, lo, hi) ==
    [op |-> "rep", c |-> "", set |-> {}, neg |-> FALSE, kids |-> <<kid>>,
     lo |-> lo, hi |-> hi]
ReStr(chars) == ReSeq([k \in DOMAIN chars |-> ReLit(chars[k])])

\* A character is in a class; under (?i) so is its other case.
InClass(c, set, fold) ==
    \/ c \in set
    \/ fold /\ (ToLowerChar(c) \in set \/ ToUpperChar(c) \in set)

\* The positions at which a match of the pattern that starts at position i
\* of s can end (the position after its last character).
RECURSIVE ReEnds(_, _, _, _)
RECURSIVE ReSeqEnds(_, _, _, _, _)
RECURSIVE ReRepEnds(_, _, _, _, _, _, _)
ReEnds(re, s, i, fold) ==
    CASE re.op = "lit" ->
            IF /\ i <= Len(s)
               /\ (s[i] = re.c \/ (fold /\ ToLowerChar(s[i]) = ToLowerChar(re.c)))
            THEN {i + 1} ELSE {}
      [] re.op = "any" -> IF i <= Len(s) THEN {i + 1} ELSE {}
      [] re.op = "class" ->
            IF i <= Len(s) /\ (InClass(s[i], re.set, fold) # re.neg)
            THEN {i + 1} ELSE {}
      [] re.op = "seq" -> ReSeqEnds(re.kids, 1, s, {i}, fold)
      [] re.op = "alt" ->
            UNION {ReEnds(re.kids[k], s, i, fold) : k \in DOMAIN re.kids}
      [] re.op = "rep" -> ReRepEnds(re.kids[1], re.lo, re.hi, s, {i}, 0, fold)

ReSeqEnds(kids, k, s, from, fold) ==
    IF k > Len(kids) \/ from = {} THEN from
    ELSE ReSeqEnds(kids, k + 1, s,
                   UNION {ReEnds(kids[k], s, p, fold) : p \in from}, fold)

\* from: the positions reached after exactly n repetitions.
ReRepEnds(kid, lo, hi, s, from, n, fold) ==
    LET here == IF n >= lo THEN from ELSE {} IN
    IF from = {} \/ (hi >= 0 /\ n >= hi) THEN here
    ELSE here \cup ReRepEnds(kid, lo, hi, s,
                             UNION {ReEnds(kid, s, p, fold) : p \in from},
                             n + 1, fold)

\* A compiled pattern: its tree and whether it began with (?i).
Regexp(syntax, fold) == [tree |-> syntax, fold |-> fold]

\* MatchString of a compiled pattern; FindStringSubmatch is non-nil in the
\* same cases.
MatchString(pattern, s) ==
    \E i \in 1..(Len(s) + 1) : ReEnds(pattern.tree, s, i, pattern.fold) # {}

\* markerPatterns: (?i)//\s*KEYWORD:?\s*(.+)
MarkerTypes == {"TODO", "FIXME", "HACK", "BUG", "NOTE"}
markerPatterns ==
    [TODO |-> Regexp(ReSeq(<<ReStr(<<"/", "/">>), ReRep(ReClass(SpaceSet, FALSE), 0, -1),
            ReStr(<<"T", "O", "D", "O">>), ReRep(ReLit(":"), 0, 1), ReRep(ReClass(SpaceSet,
            FALSE), 0, -1), ReRep(ReAny, 1, -1)>>), TRUE),
     FIXME |-> Regexp(ReSeq(<<ReStr(<<"/", "/">>), ReRep(ReClass(SpaceSet, FALSE), 0, -1),
             ReStr(<<"F", "I", "X", "M", "E">>), ReRep(ReLit(":"), 0, 1),
             ReRep(ReClass(SpaceSet, FALSE), 0, -1), ReRep(ReAny, 1, -1)>>), TRUE),
     HACK |-> Regexp(ReSeq(<<ReStr(<<"/", "/">>), ReRep(ReClass(SpaceSet, FALSE), 0, -1),
             ReStr(<<"H", "A", "C", "K">>), ReRep(ReLit(":"), 0, 1), ReRep(ReClass(SpaceSet,
             FALSE), 0, -1), ReRep(ReAny, 1, -1)>>), TRUE),
     BUG |-> Regexp(ReSeq(<<ReStr(<<"/", "/">>), ReRep(ReClass(SpaceSet, FALSE), 0, -1),
             ReStr(<<"B", "U", "G">>), ReRep(ReLit(":"), 0, 1), ReRep(ReClass(SpaceSet, FALSE),
             0, -1), ReRep(ReAny, 1, -1)>>), TRUE),
     NOTE |-> Regexp(ReSeq(<<ReStr(<<"/", "/">>), ReRep(ReClass(SpaceSet, FALSE), 0, -1),
             ReStr(<<"N", "O", "T", "E">>), ReRep(ReLit(":"), 0, 1), ReRep(ReClass(SpaceSet,
             FALSE), 0, -1), ReRep(ReAny, 1, -1)>>), TRUE)]

SecretTypes ==
    {<<"a", "p", "i", "-", "k", "e", "y">>,
     <<"p", "a", "s", "s", "w", "o", "r", "d">>,
     <<"t", "o", "k", "e", "n">>,
     <<"p", "r", "i", "v", "a", "t", "e", "-", "k", "e", "y">>,
     <<"a", "w", "s", "-", "a", "c", "c", "e", "s", "s", "-", "k", "e", "y">>,
     <<"g", "i", "t", "h", "u", "b", "-", "t", "o", "k", "e", "n">>,
     <<"s", "l", "a", "c", "k", "-", "t", "o", "k", "e", "n">>,
     <<"s", "t", "r", "i", "p", "e", "-", "k", "e", "y">>,
     <<"d", "a", "t", "a", "b", "a", "s", "e", "-", "u", "r", "l">>}
secretPatterns(secretType) ==
    CASE secretType = <<"a", "p", "i", "-", "k", "e", "y">> ->
            \* (?i)(api[_-]?key|apikey)\s*[:=]\s*['"]([a-zA-Z0-9_\-]{20,})['"]
            Regexp(ReSeq(<<ReSeq(<<ReStr(<<"a", "p", "i">>),
                    ReAlt(<<ReSeq(<<ReRep(ReClass({"_", "-"}, FALSE), 0, 1), ReStr(<<"k", "e",
                    "y">>)>>), ReStr(<<"k", "e", "y">>)>>)>>), ReRep(ReClass(SpaceSet, FALSE),
                    0, -1), ReClass({":", "="}, FALSE), ReRep(ReClass(SpaceSet, FALSE), 0, -1),
                    ReClass({"'", "\""}, FALSE),
                    ReRep(ReClass(LowerSet \cup UpperSet \cup DigitSet \cup {"_", "-"}, FALSE),
                    20, -1), ReClass({"'", "\""}, FALSE)>>), TRUE)
      [] secretType = <<"p", "a", "s", "s", "w", "o", "r", "d">> ->
            \* (?i)(password|passwd|pwd)\s*[:=]\s*['"]([^'"]{8,})['"]
            Regexp(ReSeq(<<ReSeq(<<ReLit("p"), ReAlt(<<ReStr(<<"a", "s", "s", "w", "o", "r",
                    "d">>), ReStr(<<"a", "s", "s", "w", "d">>), ReStr(<<"w", "d">>)>>)>>),
                    ReRep(ReClass(SpaceSet, FALSE), 0, -1), ReClass({":", "="}, FALSE),
                    ReRep(ReClass(SpaceSet, FALSE), 0, -1), ReClass({"'", "\""}, FALSE),
                    ReRep(ReClass({"'", "\""}, TRUE), 8, -1), ReClass({"'", "\""}, FALSE)>>), TRUE)
      [] secretType = <<"t", "o", "k", "e", "n">> ->
            \* (?i)(token|auth[_-]?token)\s*[:=]\s*['"]([a-zA-Z0-9_\-]{20,})['"]
            Regexp(ReSeq(<<ReAlt(<<ReStr(<<"t", "o", "k", "e", "n">>), ReSeq(<<ReStr(<<"a",
                    "u", "t", "h">>), ReRep(ReClass({"_", "-"}, FALSE), 0, 1), ReStr(<<"t",
                    "o", "k", "e", "n">>)>>)>>), ReRep(ReClass(SpaceSet, FALSE), 0, -1),
                    ReClass({":", "="}, FALSE), ReRep(ReClass(SpaceSet, FALSE), 0, -1),
                    ReClass({"'", "\""}, FALSE),
                    ReRep(ReClass(LowerSet \cup UpperSet \cup DigitSet \cup {"_", "-"}, FALSE),
                    20, -1), ReClass({"'", "\""}, FALSE)>>), TRUE)
      [] secretType = <<"p", "r", "i", "v", "a", "t", "e", "-", "k", "e", "y">> ->
            \* -----BEGIN (RSA |EC |DSA )?PRIVATE KEY-----
            Regexp(ReSeq(<<ReStr(<<"-", "-", "-", "-", "-", "B", "E", "G", "I", "N", " ">>),
                    ReRep(ReAlt(<<ReStr(<<"R", "S", "A", " ">>), ReStr(<<"E", "C", " ">>),
                    ReStr(<<"D", "S", "A", " ">>)>>), 0, 1), ReStr(<<"P", "R", "I", "V", "A",
                    "T", "E", " ", "K", "E", "Y", "-", "-", "-", "-", "-">>)>>), FALSE)
      [] secretType = <<"a", "w", "s", "-", "a", "c", "c", "e", "s", "s", "-", "k", "e", "y">> ->
            \* (?i)(aws[_-]?access[_-]?key[_-]?id|aws_access_key)\s*[:=]\s*['"]?(AKIA[0-9A-Z]{16})['"]?
            Regexp(ReSeq(<<ReSeq(<<ReStr(<<"a", "w", "s">>),
                    ReAlt(<<ReSeq(<<ReRep(ReClass({"_", "-"}, FALSE), 0, 1), ReStr(<<"a", "c",
                    "c", "e", "s", "s">>), ReRep(ReClass({"_", "-"}, FALSE), 0, 1),
                    ReStr(<<"k", "e", "y">>), ReRep(ReClass({"_", "-"}, FALSE), 0, 1),
                    ReStr(<<"i", "d">>)>>), ReStr(<<"_", "a", "c", "c", "e", "s", "s", "_",
                    "k", "e", "y">>)>>)>>), ReRep(ReClass(SpaceSet, FALSE), 0, -1),
                    ReClass({":", "="}, FALSE), ReRep(ReClass(SpaceSet, FALSE), 0, -1),
                    ReRep(ReClass({"'", "\""}, FALSE), 0, 1), ReSeq(<<ReStr(<<"A", "K", "I",
                    "A">>), ReRep(ReClass(DigitSet \cup UpperSet, FALSE), 16, 16)>>),
                    ReRep(ReClass({"'", "\""}, FALSE), 0, 1)>>), TRUE)
      [] secretType = <<"g", "i", "t", "h", "u", "b", "-", "t", "o", "k", "e", "n">> ->
            \* (?i)(github[_-]?token|gh_token)\s*[:=]\s*['"]?(ghp_[a-zA-Z0-9]{36})['"]?
            Regexp(ReSeq(<<ReSeq(<<ReLit("g"), ReAlt(<<ReSeq(<<ReStr(<<"i", "t", "h", "u",
                    "b">>), ReRep(ReClass({"_", "-"}, FALSE), 0, 1), ReStr(<<"t", "o", "k",
                    "e", "n">>)>>), ReStr(<<"h", "_", "t", "o", "k", "e", "n">>)>>)>>),
                    ReRep(ReClass(SpaceSet, FALSE), 0, -1), ReClass({":", "="}, FALSE),
                    ReRep(ReClass(SpaceSet, FALSE), 0, -1), ReRep(ReClass({"'", "\""}, FALSE),
                    0, 1), ReSeq(<<ReStr(<<"g", "h", "p", "_">>),
                    ReRep(ReClass(LowerSet \cup UpperSet \cup DigitSet, FALSE), 36, 36)>>),
                    ReRep(ReClass({"'", "\""}, FALSE), 0, 1)>>), TRUE)
      [] secretType = <<"s", "l", "a", "c", "k", "-", "t", "o", "k", "e", "n">> ->
            \* xox[baprs]-[0-9]{10,13}-[a-zA-Z0-9-]{24,}
            Regexp(ReSeq(<<ReStr(<<"x", "o", "x">>), ReClass({"b", "a", "p", "r", "s"}, FALSE),
                    ReLit("-"), ReRep(ReClass(DigitSet, FALSE), 10, 13), ReLit("-"),
                    ReRep(ReClass(LowerSet \cup UpperSet \cup DigitSet \cup {"-"}, FALSE), 24,
                    -1)>>), FALSE)
      [] secretType = <<"s", "t", "r", "i", "p", "e", "-", "k", "e", "y">> ->
            \* (?i)(sk_live_|pk_live_)[a-zA-Z0-9]{24,}
            Regexp(ReSeq(<<ReAlt(<<ReStr(<<"s", "k", "_", "l", "i", "v", "e", "_">>),
                    ReStr(<<"p", "k", "_", "l", "i", "v", "e", "_">>)>>),
                    ReRep(ReClass(LowerSet \cup UpperSet \cup DigitSet, FALSE), 24, -1)>>), TRUE)
      [] secretType = <<"d", "a", "t", "a", "b", "a", "s", "e", "-", "u", "r", "l">> ->
            \* (?i)(database[_-]?url|db[_-]?url)\s*[:=]\s*['"]?(postgres|mysql|mongodb)://[^'"\\s]+['"]?
            Regexp(ReSeq(<<ReSeq(<<ReLit("d"), ReAlt(<<ReSeq(<<ReStr(<<"a", "t", "a", "b", "a",
                    "s", "e">>), ReRep(ReClass({"_", "-"}, FALSE), 0, 1), ReStr(<<"u", "r",
                    "l">>)>>), ReSeq(<<ReLit("b"), ReRep(ReClass({"_", "-"}, FALSE), 0, 1),
                    ReStr(<<"u", "r", "l">>)>>)>>)>>), ReRep(ReClass(SpaceSet, FALSE), 0, -1),
                    ReClass({":", "="}, FALSE), ReRep(ReClass(SpaceSet, FALSE), 0, -1),
                    ReRep(ReClass({"'", "\""}, FALSE), 0, 1), ReAlt(<<ReStr(<<"p", "o", "s",
                    "t", "g", "r", "e", "s">>), ReStr(<<"m", "y", "s", "q", "l">>),
                    ReStr(<<"m", "o", "n", "g", "o", "d", "b">>)>>), ReStr(<<":", "/", "/">>),
                    ReRep(ReClass({"'", "\"", "\\", "s"}, TRUE), 1, -1), ReRep(ReClass({"'",
                    "\""}, FALSE), 0, 1)>>), TRUE)

sqlInjectionPatterns ==
    \* (?i)query\s*\(?\s*["']?\s*SELECT.*\+.*["']?
    <<Regexp(ReSeq(<<ReStr(<<"q", "u", "e", "r", "y">>), ReRep(ReClass(SpaceSet, FALSE), 0,
            -1), ReRep(ReLit("("), 0, 1), ReRep(ReClass(SpaceSet, FALSE), 0, -1),
            ReRep(ReClass({"\"", "'"}, FALSE), 0, 1), ReRep(ReClass(SpaceSet, FALSE), 0, -1),
            ReStr(<<"S", "E", "L", "E", "C", "T">>), ReRep(ReAny, 0, -1), ReLit("+"),
            ReRep(ReAny, 0, -1), ReRep(ReClass({"\"", "'"}, FALSE), 0, 1)>>), TRUE),
      \* (?i)execQuery\s*\(?\s*["']?\s*SELECT.*\$.*["']?
      Regexp(ReSeq(<<ReStr(<<"e", "x", "e", "c", "Q", "u", "e", "r", "y">>),
              ReRep(ReClass(SpaceSet, FALSE), 0, -1), ReRep(ReLit("("), 0, 1),
              ReRep(ReClass(SpaceSet, FALSE), 0, -1), ReRep(ReClass({"\"", "'"}, FALSE), 0, 1),
              ReRep(ReClass(SpaceSet, FALSE), 0, -1), ReStr(<<"S", "E", "L", "E", "C", "T">>),
              ReRep(ReAny, 0, -1), ReLit("$"), ReRep(ReAny, 0, -1), ReRep(ReClass({"\"", "'"},
              FALSE), 0, 1)>>), TRUE),
      \* (?i)(SELECT|UPDATE|DELETE|INSERT).*\+\s*(req\.body|params|request)
      Regexp(ReSeq(<<ReAlt(<<ReStr(<<"S", "E", "L", "E", "C", "T">>), ReStr(<<"U", "P", "D",
              "A", "T", "E">>), ReStr(<<"D", "E", "L", "E", "T", "E">>), ReStr(<<"I", "N", "S",
              "E", "R", "T">>)>>), ReRep(ReAny, 0, -1), ReLit("+"), ReRep(ReClass(SpaceSet,
              FALSE), 0, -1), ReAlt(<<ReStr(<<"r", "e", "q", ".", "b", "o", "d", "y">>),
              ReStr(<<"p", "a", "r", "a", "m", "s">>), ReStr(<<"r", "e", "q", "u", "e", "s",
              "t">>)>>)>>), TRUE),
      \* (?i)execute\s*\(\s*["']SELECT.*\+
      Regexp(ReSeq(<<ReStr(<<"e", "x", "e", "c", "u", "t", "e">>), ReRep(ReClass(SpaceSet,
              FALSE), 0, -1), ReLit("("), ReRep(ReClass(SpaceSet, FALSE), 0, -1),
              ReClass({"\"", "'"}, FALSE), ReStr(<<"S", "E", "L", "E", "C", "T">>),
              ReRep(ReAny, 0, -1), ReLit("+")>>), TRUE)>>

xssPatterns ==
    \* (?i)innerHTML\s*=\s*.*\+
    <<Regexp(ReSeq(<<ReStr(<<"i", "n", "n", "e", "r", "H", "T", "M", "L">>),
            ReRep(ReClass(SpaceSet, FALSE), 0, -1), ReLit("="), ReRep(ReClass(SpaceSet, FALSE),
            0, -1), ReRep(ReAny, 0, -1), ReLit("+")>>), TRUE),
      \* (?i)document\.write\s*\(\s*.*\+
      Regexp(ReSeq(<<ReStr(<<"d", "o", "c", "u", "m", "e", "n", "t", ".", "w", "r", "i", "t",
              "e">>), ReRep(ReClass(SpaceSet, FALSE), 0, -1), ReLit("("),
              ReRep(ReClass(SpaceSet, FALSE), 0, -1), ReRep(ReAny, 0, -1), ReLit("+")>>), TRUE),
      \* (?i)eval\s*\(\s*(req\.|request\.|params\.)
      Regexp(ReSeq(<<ReStr(<<"e", "v", "a", "l">>), ReRep(ReClass(SpaceSet, FALSE), 0, -1),
              ReLit("("), ReRep(ReClass(SpaceSet, FALSE), 0, -1), ReAlt(<<ReStr(<<"r", "e",
              "q", ".">>), ReStr(<<"r", "e", "q", "u", "e", "s", "t", ".">>), ReStr(<<"p", "a",
              "r", "a", "m", "s", ".">>)>>)>>), TRUE),
      \* (?i)dangerouslySetInnerHTML
      Regexp(ReStr(<<"d", "a", "n", "g", "e", "r", "o", "u", "s", "l", "y", "S", "e", "t", "I",
              "n", "n", "e", "r", "H", "T", "M", "L">>), TRUE)>>

\* (?i)http://
httpPattern == Regexp(ReStr(<<"h", "t", "t", "p", ":", "/", "/">>), TRUE)

(***************************************************************************)
(* The callbacks of ScanCodeMarkers and AnalyzeTimeline, and filepath.Walk *)
(* over a tree.  A node of a tree is named by its path relative to the     *)
(* root, a sequence of names; SpecWalk runs one of the three scanners that *)
(* take ScanOptions over a tree drawn from WalkUniverse.                   *)
(***************************************************************************)
codeExtensions ==
    {<<".", "g", "o">>, <<".", "j", "s">>, <<".", "t", "s">>, <<".", "p", "y">>, <<".", "j",
            "a", "v", "a">>, <<".", "c">>, <<".", "c", "p", "p">>, <<".", "h">>,
     <<".", "r", "s">>, <<".", "r", "b">>, <<".", "p", "h", "p">>, <<".", "c", "s">>, <<".",
             "s", "w", "i", "f", "t">>, <<".", "k", "t">>}

\* The marker types whose pattern matches the line.
MarkerMatches(line) ==
    {t \in MarkerTypes : MatchString(markerPatterns[t], line)}

\* for markerType, pattern := range markerPatterns, in the order the range
\* yields the types that match (the others append nothing).
RECURSIVE RangeMarkerPatterns(_, _, _, _, _)
RangeMarkerPatterns(ms, path, lineNum, line, order) ==
    IF order = <<>> THEN ms
    ELSE RangeMarkerPatterns(
            Append(ms, [Type |-> Head(order), File |-> path, Line |-> lineNum,
                        Content |-> TrimSpace(line)]),
            path, lineNum, line, Tail(order))

\* for scanner.Scan(): orders[k] is the order of the range on line k.
RECURSIVE ScanMarkerLines(_, _, _, _, _)
ScanMarkerLines(ms, path, lines, lineNum, orders) ==
    IF lineNum > Len(lines) THEN ms
    ELSE ScanMarkerLines(
            RangeMarkerPatterns(ms, path, lineNum, lines[lineNum], orders[lineNum]),
            path, lines, lineNum + 1, orders)

\* The orders the ranges over markerPatterns can take on the lines of a file.
MarkerOrders(lines) ==
    {q \in [DOMAIN lines -> UNION {Orders(MarkerMatches(lines[k])) : k \in DOMAIN lines}] :
        \A k \in DOMAIN lines : q[k] \in Orders(MarkerMatches(lines[k]))}

\* The callback of ScanCodeMarkers.
MarkersFn(ms, entry, o, orders) ==
    IF entry.Err THEN [markers |-> ms, ret |-> "nil"]
    ELSE IF entry.IsDir
    THEN [markers |-> ms,
          ret |-> IF shouldSkipDir(entry.Name, o) THEN "SkipDir" ELSE "nil"]
    ELSE LET exts == IF o.OnlyExts # {} THEN o.OnlyExts ELSE codeExtensions IN
         IF Ext(entry.Path) \notin exts THEN [markers |-> ms, ret |-> "nil"]
         ELSE IF ~entry.Open THEN [markers |-> ms, ret |-> "nil"]
         ELSE [markers |-> ScanMarkerLines(ms, entry.Path, entry.Lines, 1, orders),
               ret |-> "nil"]

EmptyTimelineEvidence ==
    [OldestFile |-> 0, NewestFile |-> 0, MostRecentDay |-> 0,
     ActivityBurst |-> FALSE, BurstDaySpan |-> 0]

\* The callback of AnalyzeTimeline.  Times are days, 0 the zero time.Time.
TimelineFn(tl, mts, entry, o) ==
    IF entry.Err THEN [timeline |-> tl, modTimes |-> mts, ret |-> "nil"]
    ELSE IF entry.IsDir
    THEN [timeline |-> tl, modTimes |-> mts,
          ret |-> IF shouldSkipDir(entry.Name, o) THEN "SkipDir" ELSE "nil"]
    ELSE LET modTime == entry.ModTime
             t1 == IF tl.OldestFile = 0 \/ modTime < tl.OldestFile
                   THEN [tl EXCEPT !.OldestFile = modTime] ELSE tl
             t2 == IF t1.NewestFile = 0 \/ modTime > t1.NewestFile
                   THEN [t1 EXCEPT !.NewestFile = modTime] ELSE t1
         IN [timeline |-> t2, modTimes |-> Append(mts, modTime), ret |-> "nil"]

\* sort.Slice(modTimes, Before): a time is put before the first later one.
RECURSIVE SortTimes(_)
SortTimes(mts) ==
    IF mts = <<>> THEN mts
    ELSE LET rest == SortTimes(Tail(mts))
             k == Cardinality({i \in DOMAIN rest : rest[i] < Head(mts)})
         IN SubSeq(rest, 1, k) \o <<Head(mts)>> \o SubSeq(rest, k + 1, Len(rest))

\* AnalyzeTimeline after the walk: the timeline returned and the sorted times.
TimelineAfterWalk(tl, mts, err) ==
    IF err # "nil" \/ Len(mts) = 0 THEN [timeline |-> tl, modTimes |-> mts]
    ELSE LET sorted == SortTimes(mts)
             t1 == [tl EXCEPT !.MostRecentDay = Now - tl.NewestFile]
             daySpan == t1.NewestFile - t1.OldestFile
             t2 == IF Len(sorted) > 1
                   THEN [t1 EXCEPT !.BurstDaySpan = daySpan,
                                   !.ActivityBurst =
                                       (daySpan <= 7 /\ Len(sorted) > 2)]
                   ELSE t1
         IN [timeline |-> t2, modTimes |-> sorted]

NameMainGo == <<"m", "a", "i", "n", ".", "g", "o">>
NameHiddenGo == <<".", "x", ".", "g", "o">>
NameLibJs == <<"l", "i", "b", ".", "j", "s">>
NamePkg == <<"p", "k", "g">>
NameIndexJs == <<"i", ".", "j", "s">>
NameConfig == <<"c", "o", "n", "f", "i", "g">>

LineTodo == <<"/", "/", " ", "T", "O", "D", "O", ":", " ", "x">>
LinePlain == <<"x", " ", ":", "=", " ", "1">>
LineBugHack == <<"/", "/", "b", "u", "g", "/", "/", "h", "a", "c", "k", ":", "y">>

Dir(rel) ==
    [Rel |-> rel, IsDir |-> TRUE, Size |-> 0, ModTime |-> 0, Open |-> TRUE,
     Lines |-> <<>>]
File(rel, size, modTime, open, lines) ==
    [Rel |-> rel, IsDir |-> FALSE, Size |-> size, ModTime |-> modTime,
     Open |-> open, Lines |-> lines]

\* The nodes a tree can have below its root.
WalkUniverse ==
    {Dir(<<NameSrc>>),
     File(<<NameSrc, NameMainGo>>, 3, 190, TRUE, <<LineTodo>>),
     Dir(<<NameSrc, NameNodeModules>>),
     File(<<NameSrc, NameNodeModules, NameIndexJs>>, 5, 100, FALSE, <<>>),
     Dir(<<NameNodeModules>>),
     File(<<NameNodeModules, NameLibJs>>, 7, 120, TRUE, <<LinePlain, LineBugHack>>),
     Dir(<<NameNodeModules, NamePkg>>),
     File(<<NameNodeModules, NamePkg, NameIndexJs>>, 11, 130, TRUE, <<LineTodo>>),
     Dir(<<NameGit>>),
     File(<<NameGit, NameConfig>>, 13, 195, TRUE, <<>>),
     File(<<NameHiddenGo>>, 17, 199, TRUE, <<LineTodo>>)}

\* A tree: every node but those just below the root has its directory.
Trees ==
    {t \in SUBSET WalkUniverse :
        \A n \in t : Len(n.Rel) > 1 =>
            \E d \in t : d.IsDir /\ d.Rel = SubSeq(n.Rel, 1, Len(n.Rel) - 1)}

WalkOptionsSet ==
    {[ExcludeDirs |-> <<NameNodeModules>>, SkipHidden |-> FALSE, OnlyExts |-> {}],
     [ExcludeDirs |-> <<>>, SkipHidden |-> TRUE, OnlyExts |-> {}],
     [ExcludeDirs |-> <<NameNodeModules>>, SkipHidden |-> TRUE,
      OnlyExts |-> {<<".", "j", "s">>}]}

\* The path of a node: the root path joined with its names.
RECURSIVE PathOf(_)
PathOf(rel) ==
    IF rel = <<>> THEN RootPath
    ELSE Join(PathOf(SubSeq(rel, 1, Len(rel) - 1)), rel[Len(rel)])

\* s sorts before t, byte by byte.
RECURSIVE StringLess(_, _)
StringLess(s, t) ==
    IF t = <<>> THEN FALSE
    ELSE IF s = <<>> THEN TRUE
    ELSE IF Head(s) # Head(t) THEN Code(Head(s)) < Code(Head(t))
    ELSE StringLess(Tail(s), Tail(t))

\* The entries of a directory, sorted by name as readDirNames returns them.
RECURSIVE SortByName(_)
SortByName(nodes) ==
    IF nodes = {} THEN <<>>
    ELSE LET first == CHOOSE n \in nodes :
                        \A m \in nodes \ {n} :
                            StringLess(n.Rel[Len(n.Rel)], m.Rel[Len(m.Rel)])
         IN <<first.Rel>> \o SortByName(nodes \ {first})

Children(t, rel) ==
    SortByName({n \in t : Len(n.Rel) = Len(rel) + 1
                          /\ SubSeq(n.Rel, 1, Len(rel)) = rel})

\* What Lstat and the directory listing give for a node; the root is the
\* directory ScanFileSystem was given.
EntryOf(t, rel) ==
    IF rel = <<>>
    THEN [IsDir |-> TRUE, Name |-> RootPath, Path |-> RootPath, Size |-> 0,
          Err |-> FALSE, ModTime |-> 0, Open |-> TRUE, Lines |-> <<>>]
    ELSE LET n == CHOOSE n \in t : n.Rel = rel IN
         [IsDir |-> n.IsDir, Name |-> rel[Len(rel)], Path |-> PathOf(rel),
          Size |-> n.Size, Err |-> FALSE, ModTime |-> n.ModTime,
          Open |-> n.Open, Lines |-> n.Lines]

\* Mutant of WalkNext: Walk reads a directory whatever the callback returned.
WalkNextDescending(t, pending, ret) ==
    IF EntryOf(t, Head(pending)).IsDir
    THEN Children(t, Head(pending)) \o Tail(pending)
    ELSE Tail(pending)

\* filepath.Walk after the callback returned for the first pending path: a
\* directory is read, and its entries visited next, unless the callback
\* returned SkipDir.
WalkNext(t, pending, ret) ==
    IF EntryOf(t, Head(pending)).IsDir /\ ret = "nil"
    THEN Children(t, Head(pending)) \o Tail(pending)
    ELSE Tail(pending)

InitWalk ==
    /\ pc \in {"walkFS", "walkMarkers", "walkTimeline"}
    /\ tree \in Trees
    /\ todo = << <<>> >>
    /\ root = "ok"
    /\ opts \in WalkOptionsSet
    /\ fsEvidence = EmptyFileSystemEvidence
    /\ walked = <<>>
    /\ pruning = FALSE
    /\ fsErr = "nil"
    /\ markers = <<>>
    /\ markersAgain = None
    /\ timeline = EmptyTimelineEvidence
    /\ modTimes = <<>>
    /\ IdleCore /\ IdleSec /\ IdleDet /\ IdleHash /\ IdleGen

\* ScanFileSystem: Walk calls the callback on the next path.
WalkVisitFS ==
    /\ pc = "walkFS"
    /\ todo # <<>>
    /\ LET entry == EntryOf(tree, Head(todo))
           r == WalkFn(fsEvidence, entry, opts)
       IN /\ fsEvidence' = r.ev
          /\ walked' = IF r.ev.TotalFiles > fsEvidence.TotalFiles
                       THEN Append(walked, [Path |-> entry.Path,
                                            Size |-> entry.Size])
                       ELSE walked
          /\ pruning' = (r.ret = "SkipDir")
          /\ fsErr' = WalkReturn(r.ret)
          /\ todo' = WalkNext(tree, todo, r.ret)
    /\ UNCHANGED <<pc, tree, root, opts, markers, markersAgain, timeline,
                   modTimes, coreVars, secVars, detVars, hashVars, genVars>>

\* ScanFileSystem: Walk has returned; sort, truncate, return.
WalkReturnFS ==
    /\ pc = "walkFS"
    /\ todo = <<>>
    /\ fsEvidence' = [fsEvidence EXCEPT !.LargestFiles = SortAndTruncate(@)]
    /\ pruning' = FALSE
    /\ pc' = "walkFSDone"
    /\ UNCHANGED <<root, opts, walked, fsErr, walkVars, coreVars, secVars,
                   detVars, hashVars, genVars>>

\* ScanCodeMarkers: Walk calls the callback on the next path.
WalkVisitMarkers ==
    /\ pc = "walkMarkers"
    /\ todo # <<>>
    /\ LET entry == EntryOf(tree, Head(todo)) IN
       \E orders \in MarkerOrders(entry.Lines) :
          LET r == MarkersFn(markers, entry, opts, orders) IN
          /\ markers' = r.markers
          /\ todo' = WalkNext(tree, todo, r.ret)
    /\ UNCHANGED <<pc, tree, fsVars, markersAgain, timeline, modTimes,
                   coreVars, secVars, detVars, hashVars, genVars>>

\* ScanCodeMarkers: Walk has returned; return markers, err.
WalkReturnMarkers ==
    /\ pc = "walkMarkers"
    /\ todo = <<>>
    /\ pc' = "walkMarkersDone"
    /\ UNCHANGED <<fsVars, walkVars, coreVars, secVars, detVars, hashVars,
                   genVars>>

\* AnalyzeTimeline: Walk calls the callback on the next path.
WalkVisitTimeline ==
    /\ pc = "walkTimeline"
    /\ todo # <<>>
    /\ LET r == TimelineFn(timeline, modTimes, EntryOf(tree, Head(todo)), opts) IN
          /\ timeline' = r.timeline
          /\ modTimes' = r.modTimes
          /\ todo' = WalkNext(tree, todo, r.ret)
    /\ UNCHANGED <<pc, tree, fsVars, markers, markersAgain, coreVars, secVars,
                   detVars, hashVars, genVars>>

\* AnalyzeTimeline: Walk has returned.
WalkReturnTimeline ==
    /\ pc = "walkTimeline"
    /\ todo = <<>>
    /\ LET r == TimelineAfterWalk(timeline, modTimes, "nil") IN
          /\ timeline' = r.timeline
          /\ modTimes' = r.modTimes
    /\ pc' = "walkTimelineDone"
    /\ UNCHANGED <<tree, todo, fsVars, markers, markersAgain, coreVars,
                   secVars, detVars, hashVars, genVars>>

NextWalk ==
    \/ WalkVisitFS \/ WalkReturnFS
    \/ WalkVisitMarkers \/ WalkReturnMarkers
    \/ WalkVisitTimeline \/ WalkReturnTimeline

SpecWalk == InitWalk /\ [][NextWalk]_vars

\* The places in a node's path (the node itself when it is a directory) of
\* directories whose name matches an exclusion rule of the options.
ExcludedAt(n, o) ==
    {j \in 1..(IF n.IsDir THEN Len(n.Rel) ELSE Len(n.Rel) - 1) :
        shouldSkipDir(n.Rel[j], o)}

RECURSIVE SumSizes(_)
SumSizes(nodes) ==
    IF nodes = {} THEN 0
    ELSE LET n == CHOOSE n \in nodes : TRUE IN n.Size + SumSizes(nodes \ {n})

TypeOf(n) ==
    IF Ext(PathOf(n.Rel)) = <<>> THEN NoExtension ELSE Ext(PathOf(n.Rel))

CategoryFields ==
    {<<CategorySource, "SourceFiles">>, <<CategoryAsset, "AssetFiles">>,
     <<CategoryDependency, "DependencyFiles">>,
     <<CategoryBuildArtifact, "BuildArtifacts">>,
     <<CategoryConfig, "ConfigFiles">>,
     <<CategoryDocumentation, "DocumentationFiles">>,
     <<CategoryTest, "TestFiles">>, <<CategoryOther, "OtherFiles">>}

\* C11: when scanFileSystem has returned, the totals, the extension
\* histogram, the category counts and LargestFiles are those of the entries
\* with no excluded directory at or above them, and the skips recorded are
\* one per top-most excluded directory: one SkippedDirs entry with its name,
\* one SkippedDirsCount increment, none for anything below it.
C11_ExcludedSubtrees ==
    pc = "walkFSDone" =>
        LET outside == {n \in tree : ExcludedAt(n, opts) = {}}
            files == {n \in outside : ~n.IsDir}
            dirs == {n \in outside : n.IsDir}
            skipped == {n \in tree : n.IsDir /\ ExcludedAt(n, opts) = {Len(n.Rel)}}
            ev == fsEvidence
        IN /\ ev.TotalFiles = Cardinality(files)
           /\ ev.TotalDirectories = 1 + Cardinality(dirs)
           /\ ev.TotalSize = SumSizes(files)
           /\ DOMAIN ev.FileTypes = {TypeOf(n) : n \in files}
           /\ \A e \in DOMAIN ev.FileTypes :
                ev.FileTypes[e] = Cardinality({n \in files : TypeOf(n) = e})
           /\ \A cf \in CategoryFields :
                ev.CategorizedFiles[cf[2]] =
                    Cardinality({n \in files :
                        categorizeFile(PathOf(n.Rel), TypeOf(n)) = cf[1]})
           /\ Len(ev.LargestFiles) = Cardinality(files)
           /\ {ev.LargestFiles[i].Path : i \in DOMAIN ev.LargestFiles}
                = {PathOf(n.Rel) : n \in files}
           /\ ev.SkippedDirsCount = Cardinality(skipped)
           /\ Len(ev.SkippedDirs) = Cardinality(skipped)
           /\ \A n \in skipped :
                Cardinality({i \in DOMAIN ev.SkippedDirs :
                                ev.SkippedDirs[i] = n.Rel[Len(n.Rel)]})
                    = Cardinality({m \in skipped :
                                     m.Rel[Len(m.Rel)] = n.Rel[Len(n.Rel)]})

\* C11 witness: node_modules is excluded and the tree has it twice, at the
\* root with a directory and files below it and under src; two skips were
\* recorded and the one file outside them was counted.
C11_Witness ==
    /\ pc = "walkFSDone"
    /\ opts.ExcludeDirs = <<NameNodeModules>>
    /\ ~opts.SkipHidden
    /\ \E n \in tree : n.Rel = <<NameNodeModules, NamePkg, NameIndexJs>>
    /\ \E n \in tree : n.Rel = <<NameSrc, NameNodeModules, NameIndexJs>>
    /\ \E n \in tree : n.Rel = <<NameSrc, NameMainGo>>
    /\ ~\E n \in tree : n.Rel = <<NameHiddenGo>>
    /\ ~\E n \in tree : n.Rel = <<NameGit>>
    /\ fsEvidence.SkippedDirs = <<NameNodeModules, NameNodeModules>>
    /\ fsEvidence.SkippedDirsCount = 2
    /\ fsEvidence.TotalFiles = 1
    /\ fsEvidence.TotalDirectories = 2

\* C12: with SkipHidden set no file that is dot-prefixed, or lies under a
\* dot-prefixed directory, contributes: ScanFileSystem does not count it,
\* ScanCodeMarkers reports no marker in it and AnalyzeTimeline does not take
\* its modification time.
C12_HiddenNeverContributes ==
    opts.SkipHidden =>
        \A n \in tree :
            (~n.IsDir /\ \E j \in DOMAIN n.Rel : HasDotPrefix(n.Rel[j])) =>
                /\ \A i \in DOMAIN walked : walked[i].Path # PathOf(n.Rel)
                /\ \A i \in DOMAIN markers : markers[i].File # PathOf(n.Rel)
                /\ \A i \in DOMAIN modTimes : modTimes[i] # n.ModTime

(***************************************************************************)
(* ScanSecurity, and two runs of ScanCodeMarkers or of ScanSecurity over   *)
(* one unchanged tree (SpecRescan).                                        *)
(***************************************************************************)
sourceExtensions ==
    {<<".", "g", "o">>, <<".", "j", "s">>, <<".", "t", "s">>, <<".", "p", "y">>, <<".", "p",
            "h", "p">>, <<".", "j", "a", "v", "a">>, <<".", "r", "b">>, <<".", "c", "s">>,
     <<".", "j", "s", "x">>, <<".", "t", "s", "x">>, <<".", "v", "u", "e">>, <<".", "h", "t",
             "m", "l">>, <<".", "e", "n", "v">>, <<".", "c", "o", "n", "f", "i", "g">>, <<".",
             "y", "m", "l">>}

EmptySecurityEvidence ==
    [HardcodedSecrets |-> <<>>, SQLInjectionRisks |-> <<>>, XSSRisks |-> <<>>,
     InsecurePatterns |-> <<>>]

\* The secret types whose pattern matches the line.
SecretMatches(line) ==
    {t \in SecretTypes : MatchString(secretPatterns(t), line)}

\* for secretType, pattern := range secretPatterns, in the order the range
\* yields the types that match.
RECURSIVE RangeSecretPatterns(_, _, _, _, _)
RangeSecretPatterns(secrets, path, lineNum, line, order) ==
    IF order = <<>> THEN secrets
    ELSE RangeSecretPatterns(
            Append(secrets, [File |-> path, Line |-> lineNum, Type |-> Head(order),
                             Pattern |-> TrimSpace(line)]),
            path, lineNum, line, Tail(order))

\* for _, pattern := range patterns (a slice): one risk per matching pattern.
RECURSIVE RangeRiskPatterns(_, _, _, _, _)
RangeRiskPatterns(risks, patterns, k, risk, line) ==
    IF k > Len(patterns) THEN risks
    ELSE RangeRiskPatterns(
            IF MatchString(patterns[k], line) THEN Append(risks, risk) ELSE risks,
            patterns, k + 1, risk, line)

SecurityRisk(path, lineNum, type, description, severity) ==
    [File |-> path, Line |-> lineNum, Type |-> type, Description |-> description,
     Severity |-> severity]

\* The body of the line loop of ScanSecurity.
SecurityLine(ev, path, lineNum, line, order) ==
    LET weak == IF Contains(line, <<"c", "r", "y", "p", "t", "o", ".", "M", "D",
            "5">>) \/ Contains(line, <<"h", "a", "s", "h", "l", "i", "b", ".", "m", "d", "5">>)
                THEN Append(ev.InsecurePatterns,
                            SecurityRisk(path, lineNum, "weak-crypto",
                                <<"W", "e", "a", "k", " ", "h", "a", "s", "h", "i", "n",
                                  "g", " ", "a", "l", "g", "o", "r", "i", "t", "h", "m",
                                  " ", "(", "M", "D", "5", ")", " ", "d", "e", "t", "e",
                                  "c", "t", "e", "d">>,
                                SeverityMedium))
                ELSE ev.InsecurePatterns
        insecure == IF MatchString(httpPattern, line) /\ ~Contains(line, <<"l", "o", "c", "a",
                "l", "h", "o", "s", "t">>)
                    THEN Append(weak,
                                SecurityRisk(path, lineNum, "insecure-protocol",
                                    <<"I", "n", "s", "e", "c", "u", "r", "e", " ", "H",
                                      "T", "T", "P", " ", "p", "r", "o", "t", "o", "c",
                                      "o", "l", " ", "u", "s", "a", "g", "e", " ", "(",
                                      "s", "h", "o", "u", "l", "d", " ", "u", "s", "e",
                                      " ", "H", "T", "T", "P", "S", ")">>,
                                    SeverityLow))
                    ELSE weak
    IN [HardcodedSecrets |->
            RangeSecretPatterns(ev.HardcodedSecrets, path, lineNum, line, order),
        SQLInjectionRisks |->
            RangeRiskPatterns(ev.SQLInjectionRisks, sqlInjectionPatterns, 1,
                SecurityRisk(path, lineNum, "sql-injection",
                    <<"P", "o", "t", "e", "n", "t", "i", "a", "l", " ", "S", "Q", "L",
                      " ", "i", "n", "j", "e", "c", "t", "i", "o", "n", " ", "v", "u",
                      "l", "n", "e", "r", "a", "b", "i", "l", "i", "t", "y", " ", "f",
                      "r", "o", "m", " ", "s", "t", "r", "i", "n", "g", " ", "c", "o",
                      "n", "c", "a", "t", "e", "n", "a", "t", "i", "o", "n">>,
                    SeverityHigh),
                line),
        XSSRisks |->
            RangeRiskPatterns(ev.XSSRisks, xssPatterns, 1,
                SecurityRisk(path, lineNum, "xss",
                    <<"P", "o", "t", "e", "n", "t", "i", "a", "l", " ", "X", "S", "S",
                      " ", "v", "u", "l", "n", "e", "r", "a", "b", "i", "l", "i", "t",
                      "y", " ", "f", "r", "o", "m", " ", "u", "n", "s", "a", "f", "e",
                      " ", "H", "T", "M", "L", " ", "r", "e", "n", "d", "e", "r", "i",
                      "n", "g">>,
                    SeverityMedium),
                line),
        InsecurePatterns |-> insecure]

RECURSIVE ScanSecurityLines(_, _, _, _, _)
ScanSecurityLines(ev, path, lines, lineNum, orders) ==
    IF lineNum > Len(lines) THEN ev
    ELSE ScanSecurityLines(
            SecurityLine(ev, path, lineNum, lines[lineNum], orders[lineNum]),
            path, lines, lineNum + 1, orders)

\* The orders the ranges over secretPatterns can take on the lines of a file.
SecretOrders(lines) ==
    {q \in [DOMAIN lines -> UNION {Orders(SecretMatches(lines[k])) : k \in DOMAIN lines}] :
        \A k \in DOMAIN lines : q[k] \in Orders(SecretMatches(lines[k]))}

\* The callback of ScanSecurity.
SecurityFn(ev, entry, excludeDirs, orders) ==
    IF entry.Err THEN [ev |-> ev, ret |-> "nil"]
    ELSE IF entry.IsDir
    THEN [ev |-> ev,
          ret |-> IF \E i \in DOMAIN excludeDirs :
                        entry.Name = excludeDirs[i] \/ HasDotPrefix(entry.Name)
                  THEN "SkipDir" ELSE "nil"]
    ELSE IF Ext(entry.Path) \notin sourceExtensions /\ ~HasSuffix(entry.Path, <<".", "e", "n",
            "v">>)
    THEN [ev |-> ev, ret |-> "nil"]
    ELSE IF ~entry.Open THEN [ev |-> ev, ret |-> "nil"]
    ELSE [ev |-> ScanSecurityLines(ev, entry.Path, entry.Lines, 1, orders),
          ret |-> "nil"]

NameAGo == <<"a", ".", "g", "o">>
NameSPy == <<"s", ".", "p", "y">>
NameLib == <<"l", "i", "b">>
NameQJs == <<"q", ".", "j", "s">>

LineGhToken == <<"g", "h", "_", "t", "o", "k", "e", "n", "=", "\"", "g", "h", "p", "_", "0",
        "1", "2", "3", "4", "5", "6", "7", "8", "9", "a", "b", "c", "d", "e", "f", "g", "h",
        "i", "j", "k", "l", "m", "n", "o", "p", "q", "r", "s", "t", "u", "v", "w", "x", "y",
        "z", "\"">>
LineMd5 == <<"h", " ", "=", " ", "h", "a", "s", "h", "l", "i", "b", ".", "m", "d", "5", "(",
        "x", ")">>
LineHttp == <<"u", " ", "=", " ", "\"", "h", "t", "t", "p", ":", "/", "/", "a", ".", "i", "o",
        "\"">>
LineLocal == <<"u", " ", "=", " ", "\"", "h", "t", "t", "p", ":", "/", "/", "l", "o", "c", "a",
        "l", "h", "o", "s", "t", "\"">>
LineSql == <<"d", "b", ".", "q", "u", "e", "r", "y", "(", "\"", "S", "E", "L", "E", "C", "T",
        " ", "a", "\"", " ", "+", " ", "x", ")">>
LineXss == <<"e", ".", "i", "n", "n", "e", "r", "H", "T", "M", "L", " ", "=", " ", "a", " ",
        "+", " ", "b">>

\* The nodes of the trees scanned twice.
RescanUniverse ==
    {File(<<NameAGo>>, 3, 190, TRUE, <<LineBugHack, LineTodo>>),
     File(<<NameSPy>>, 5, 191, TRUE, <<LineGhToken, LineMd5>>),
     Dir(<<NameLib>>),
     File(<<NameLib, NameQJs>>, 7, 192, TRUE,
          <<LineHttp, LineLocal, LineSql, LineXss>>),
     Dir(<<NameGit>>),
     File(<<NameGit, NameSPy>>, 5, 193, TRUE, <<LineHttp>>)}

RescanTrees ==
    {t \in SUBSET RescanUniverse :
        \A n \in t : Len(n.Rel) > 1 =>
            \E d \in t : d.IsDir /\ d.Rel = SubSeq(n.Rel, 1, Len(n.Rel) - 1)}

RescanOptionsSet ==
    {[ExcludeDirs |-> <<>>, SkipHidden |-> FALSE, OnlyExts |-> {}],
     [ExcludeDirs |-> <<NameNodeModules>>, SkipHidden |-> TRUE, OnlyExts |-> {}]}

InitRescan ==
    /\ pc \in {"markers1", "security1"}
    /\ tree \in RescanTrees
    /\ todo = << <<>> >>
    /\ root = "ok"
    /\ opts \in RescanOptionsSet
    /\ fsEvidence = None /\ walked = None /\ pruning = None /\ fsErr = None
    /\ markers = IF pc = "markers1" THEN <<>> ELSE None
    /\ markersAgain = None
    /\ timeline = None /\ modTimes = None
    /\ secEvidence = IF pc = "security1" THEN EmptySecurityEvidence ELSE None
    /\ secAgain = None
    /\ IdleCore /\ IdleDet /\ IdleHash /\ IdleGen

\* ScanCodeMarkers, first or second run: the callback on the next path.
RescanVisitMarkers ==
    /\ pc \in {"markers1", "markers2"}
    /\ todo # <<>>
    /\ LET entry == EntryOf(tree, Head(todo)) IN
       \E orders \in MarkerOrders(entry.Lines) :
          LET r == MarkersFn(IF pc = "markers1" THEN markers ELSE markersAgain,
                             entry, opts, orders)
          IN /\ markers' = IF pc = "markers1" THEN r.markers ELSE markers
             /\ markersAgain' = IF pc = "markers2" THEN r.markers ELSE markersAgain
             /\ todo' = WalkNext(tree, todo, r.ret)
    /\ UNCHANGED <<pc, tree, fsVars, timeline, modTimes, coreVars, secVars,
                   detVars, hashVars, genVars>>

\* ScanCodeMarkers returns; after the first run the second is called.
RescanReturnMarkers ==
    /\ pc \in {"markers1", "markers2"}
    /\ todo = <<>>
    /\ pc' = IF pc = "markers1" THEN "markers2" ELSE "markersDone"
    /\ todo' = IF pc = "markers1" THEN << <<>> >> ELSE todo
    /\ markersAgain' = IF pc = "markers1" THEN <<>> ELSE markersAgain
    /\ UNCHANGED <<tree, fsVars, markers, timeline, modTimes, coreVars, secVars,
                   detVars, hashVars, genVars>>

\* ScanSecurity, first or second run: the callback on the next path.
RescanVisitSecurity ==
    /\ pc \in {"security1", "security2"}
    /\ todo # <<>>
    /\ LET entry == EntryOf(tree, Head(todo)) IN
       \E orders \in SecretOrders(entry.Lines) :
          LET r == SecurityFn(IF pc = "security1" THEN secEvidence ELSE secAgain,
                              entry, opts.ExcludeDirs, orders)
          IN /\ secEvidence' = IF pc = "security1" THEN r.ev ELSE secEvidence
             /\ secAgain' = IF pc = "security2" THEN r.ev ELSE secAgain
             /\ todo' = WalkNext(tree, todo, r.ret)
    /\ UNCHANGED <<pc, tree, fsVars, markers, markersAgain, timeline, modTimes,
                   coreVars, detVars, hashVars, genVars>>

\* ScanSecurity returns; after the first run the second is called.
RescanReturnSecurity ==
    /\ pc \in {"security1", "security2"}
    /\ todo = <<>>
    /\ pc' = IF pc = "security1" THEN "security2" ELSE "securityDone"
    /\ todo' = IF pc = "security1" THEN << <<>> >> ELSE todo
    /\ secAgain' = IF pc = "security1" THEN EmptySecurityEvidence ELSE secAgain
    /\ UNCHANGED <<tree, fsVars, markers, markersAgain, timeline, modTimes,
                   secEvidence, coreVars, detVars, hashVars, genVars>>

NextRescan ==
    \/ RescanVisitMarkers \/ RescanReturnMarkers
    \/ RescanVisitSecurity \/ RescanReturnSecurity

SpecRescan == InitRescan /\ [][NextRescan]_vars

\* C14: for an unchanged tree two runs of scanCodeMarkers return the same
\* sequence of markers in the same order, and two runs of scanSecurity return
\* the same HardcodedSecrets sequence, also when a line matches more than one
\* pattern.
C14_SameOrderOnRerun ==
    /\ pc = "markersDone" => markersAgain = markers
    /\ pc = "securityDone" =>
            secAgain.HardcodedSecrets = secEvidence.HardcodedSecrets

(***************************************************************************)
(* DetectProjectType, called twice on one unchanged tree (SpecDetect).     *)
(***************************************************************************)
KeyFile(keyFile, language, framework) ==
    [keyFile |-> keyFile, language |-> language, framework |-> framework]

keyFiles ==
    {KeyFile(<<"c", "o", "m", "p", "o", "s", "e", "r", ".", "j", "s", "o", "n">>, <<"P", "H", "P">>,
            <<"L", "a", "r", "a", "v", "e", "l", "/", "P", "H", "P">>),
     KeyFile(<<"a", "r", "t", "i", "s", "a", "n">>, <<"P", "H", "P">>, <<"L", "a", "r", "a", "v", "e", "l">>),
     KeyFile(<<"p", "a", "c", "k", "a", "g", "e", ".", "j", "s", "o", "n">>, <<"J", "a", "v", "a", "S", "c", "r", "i", "p", "t">>,
             <<"N", "o", "d", "e", ".", "j", "s">>),
     KeyFile(<<"p", "a", "c", "k", "a", "g", "e", "-", "l", "o", "c", "k", ".", "j", "s", "o",
             "n">>, <<"J", "a", "v", "a", "S", "c", "r", "i", "p", "t">>, <<"N", "o", "d", "e", ".", "j", "s">>),
     KeyFile(<<"y", "a", "r", "n", ".", "l", "o", "c", "k">>, <<"J", "a", "v", "a", "S", "c", "r", "i", "p", "t">>, <<"N", "o", "d", "e", ".", "j", "s">>),
     KeyFile(<<"n", "e", "x", "t", ".", "c", "o", "n", "f", "i", "g", ".", "j", "s">>,
             <<"J", "a", "v", "a", "S", "c", "r", "i", "p", "t">>, <<"N", "e", "x", "t", ".", "j", "s">>),
     KeyFile(<<"n", "u", "x", "t", ".", "c", "o", "n", "f", "i", "g", ".", "j", "s">>,
             <<"J", "a", "v", "a", "S", "c", "r", "i", "p", "t">>, <<"N", "u", "x", "t", ".", "j", "s">>),
     KeyFile(<<"a", "n", "g", "u", "l", "a", "r", ".", "j", "s", "o", "n">>, <<"T", "y", "p", "e", "S", "c", "r", "i", "p", "t">>,
             <<"A", "n", "g", "u", "l", "a", "r">>),
     KeyFile(<<"t", "s", "c", "o", "n", "f", "i", "g", ".", "j", "s", "o", "n">>, <<"T", "y", "p", "e", "S", "c", "r", "i", "p", "t">>,
             <<"T", "y", "p", "e", "S", "c", "r", "i", "p", "t">>),
     KeyFile(<<"r", "e", "q", "u", "i", "r", "e", "m", "e", "n", "t", "s", ".", "t", "x",
             "t">>, <<"P", "y", "t", "h", "o", "n">>, <<"P", "y", "t", "h", "o", "n">>),
     KeyFile(<<"s", "e", "t", "u", "p", ".", "p", "y">>, <<"P", "y", "t", "h", "o", "n">>, <<"P", "y", "t", "h", "o", "n">>),
     KeyFile(<<"P", "i", "p", "f", "i", "l", "e">>, <<"P", "y", "t", "h", "o", "n">>, <<"P", "y", "t", "h", "o", "n", "/", "P", "i", "p", "e", "n", "v">>),
     KeyFile(<<"p", "y", "p", "r", "o", "j", "e", "c", "t", ".", "t", "o", "m", "l">>,
             <<"P", "y", "t", "h", "o", "n">>, <<"P", "y", "t", "h", "o", "n", "/", "P", "o", "e", "t", "r", "y">>),
     KeyFile(<<"m", "a", "n", "a", "g", "e", ".", "p", "y">>, <<"P", "y", "t", "h", "o", "n">>, <<"D", "j", "a", "n", "g", "o">>),
     KeyFile(<<"G", "e", "m", "f", "i", "l", "e">>, <<"R", "u", "b", "y">>, <<"R", "u", "b", "y", "/", "R", "a", "i", "l", "s">>),
     KeyFile(<<"g", "o", ".", "m", "o", "d">>, <<"G", "o">>, <<"G", "o">>),
     KeyFile(<<"C", "a", "r", "g", "o", ".", "t", "o", "m", "l">>, <<"R", "u", "s", "t">>, <<"R", "u", "s", "t">>),
     KeyFile(<<"p", "o", "m", ".", "x", "m", "l">>, <<"J", "a", "v", "a">>, <<"M", "a", "v", "e", "n">>),
     KeyFile(<<"b", "u", "i", "l", "d", ".", "g", "r", "a", "d", "l", "e">>, <<"J", "a", "v", "a">>, <<"G", "r", "a", "d", "l", "e">>),
     KeyFile(<<"*", ".", "c", "s", "p", "r", "o", "j">>, <<".", "N", "E", "T">>, <<".", "N", "E", "T">>),
     KeyFile(<<"D", "o", "c", "k", "e", "r", "f", "i", "l", "e">>, <<>>, <<"D", "o", "c", "k", "e", "r">>),
     KeyFile(<<"d", "o", "c", "k", "e", "r", "-", "c", "o", "m", "p", "o", "s", "e", ".", "y",
             "m", "l">>, <<>>, <<"D", "o", "c", "k", "e", "r", " ", "C", "o", "m", "p", "o", "s", "e">>)}

languageMap ==
    {<<<<".", "g", "o">>, <<"G", "o">>>>, <<<<".", "j", "s">>, <<"J", "a", "v", "a", "S", "c", "r", "i", "p", "t">>>>, <<<<".", "t", "s">>,
            <<"T", "y", "p", "e", "S", "c", "r", "i", "p", "t">>>>,
     <<<<".", "p", "y">>, <<"P", "y", "t", "h", "o", "n">>>>, <<<<".", "p", "h", "p">>, <<"P", "H", "P">>>>, <<<<".", "r", "b">>,
             <<"R", "u", "b", "y">>>>,
     <<<<".", "j", "a", "v", "a">>, <<"J", "a", "v", "a">>>>, <<<<".", "c", "s">>, <<".", "N", "E", "T">>>>, <<<<".", "r",
             "s">>, <<"R", "u", "s", "t">>>>,
     <<<<".", "c", "p", "p">>, <<"C", "+", "+">>>>, <<<<".", "c">>, <<"C">>>>}

\* strings.TrimPrefix(keyFile, "*")
TrimStar(s) == IF s # <<>> /\ Head(s) = "*" THEN Tail(s) ELSE s

\* The entries of keyFiles the name matches; no name matches two of them.
KeyMatches(name) ==
    {k \in keyFiles :
        \/ name = k.keyFile
        \/ Contains(k.keyFile, <<"*">>) /\ HasSuffix(name, TrimStar(k.keyFile))}

\* filepath.Rel(rootPath, path) of a node, and the separators in it.
RECURSIVE RelPath(_)
RelPath(rel) ==
    IF Len(rel) = 1 THEN rel[1]
    ELSE Join(RelPath(SubSeq(rel, 1, Len(rel) - 1)), rel[Len(rel)])

CountSeparators(s) == Cardinality({i \in DOMAIN s : s[i] = "/"})

\* The paths filepath.Walk hands to a callback that always returns nil.
RECURSIVE WalkOrder(_, _)
WalkOrder(t, pending) ==
    IF pending = <<>> THEN <<>>
    ELSE <<Head(pending)>> \o WalkOrder(t, WalkNext(t, pending, "nil"))

\* The callback of DetectProjectType on one path.
DetectFn(d, t, rel) ==
    LET entry == EntryOf(t, rel) IN
    IF entry.Err \/ entry.IsDir THEN d
    ELSE IF CountSeparators(RelPath(rel)) > 3 THEN d
    ELSE IF KeyMatches(entry.Name) = {} THEN d
    ELSE LET typeInfo == CHOOSE k \in KeyMatches(entry.Name) : TRUE
             d1 == IF typeInfo.language # <<>>
                   THEN [d EXCEPT !.detectedTypes =
                                      IncrementKey(@, typeInfo.language),
                                  !.DetectedFiles = Append(@, entry.Name)]
                   ELSE d
         IN IF typeInfo.framework # <<>>
            THEN [d1 EXCEPT !.detectedFrameworks = Append(@, typeInfo.framework),
                            !.DetectedFiles = Append(@, entry.Name)]
            ELSE d1

RECURSIVE DetectWalk(_, _, _)
DetectWalk(d, t, order) ==
    IF order = <<>> THEN d
    ELSE DetectWalk(DetectFn(d, t, Head(order)), t, Tail(order))

\* for lang, count := range counts { if count > maxCount {...} } in one
\* order of the range.
RECURSIVE RangeMaxCount(_, _, _, _)
RangeMaxCount(counts, order, maxCount, lang) ==
    IF order = <<>> THEN lang
    ELSE IF counts[Head(order)] > maxCount
    THEN RangeMaxCount(counts, Tail(order), counts[Head(order)], Head(order))
    ELSE RangeMaxCount(counts, Tail(order), maxCount, lang)

\* extensionCounts after the walk of detectFromExtensions.
RECURSIVE ExtensionCounts(_, _, _)
ExtensionCounts(counts, t, order) ==
    IF order = <<>> THEN counts
    ELSE LET entry == EntryOf(t, Head(order))
             langs == {p \in languageMap : p[1] = Ext(entry.Path)}
         IN ExtensionCounts(
                IF ~entry.Err /\ ~entry.IsDir /\ langs # {}
                THEN IncrementKey(counts, (CHOOSE p \in langs : TRUE)[2])
                ELSE counts,
                t, Tail(order))

detectFromExtensions(t, order) ==
    LET extensionCounts ==
            ExtensionCounts([l \in {} |-> 0], t, WalkOrder(t, << <<>> >>))
    IN RangeMaxCount(extensionCounts, order, 0, <<"U", "n", "k", "n", "o", "w", "n">>)

\* The language counts the two ranges go over.
DetectedTypes(t) ==
    DetectWalk([detectedTypes |-> [l \in {} |-> 0], detectedFrameworks |-> <<>>,
                DetectedFiles |-> <<>>], t, WalkOrder(t, << <<>> >>)).detectedTypes

FallbackCounts(t) == ExtensionCounts([l \in {} |-> 0], t, WalkOrder(t, << <<>> >>))

\* "First detected framework", the first one that contains "Laravel" when
\* there is one.
FrameworkOf(detectedFrameworks) ==
    LET laravel == {i \in DOMAIN detectedFrameworks :
                        Contains(detectedFrameworks[i], <<"L", "a", "r", "a", "v", "e", "l">>)}
    IN IF detectedFrameworks = <<>> THEN <<>>
       ELSE IF laravel # {}
       THEN detectedFrameworks[CHOOSE i \in laravel : \A j \in laravel : i <= j]
       ELSE detectedFrameworks[1]

\* DetectProjectType, given the orders of its range over detectedTypes and of
\* the range of detectFromExtensions.
DetectProjectType(t, order, fallbackOrder) ==
    LET d == DetectWalk([detectedTypes |-> [l \in {} |-> 0],
                         detectedFrameworks |-> <<>>, DetectedFiles |-> <<>>],
                        t, WalkOrder(t, << <<>> >>))
        primary == RangeMaxCount(d.detectedTypes, order, 0, <<>>)
    IN [PrimaryLanguage |-> IF primary = <<>> THEN detectFromExtensions(t, fallbackOrder)
                            ELSE primary,
        Framework |-> FrameworkOf(d.detectedFrameworks),
        DetectedFiles |-> d.DetectedFiles]

NameComposer == <<"c", "o", "m", "p", "o", "s", "e", "r", ".", "j", "s", "o", "n">>
NamePackage == <<"p", "a", "c", "k", "a", "g", "e", ".", "j", "s", "o", "n">>
NameGoMod == <<"g", "o", ".", "m", "o", "d">>
NameDockerfile == <<"D", "o", "c", "k", "e", "r", "f", "i", "l", "e">>
NameXPhp == <<"x", ".", "p", "h", "p">>
NameD == <<"d">>

\* The nodes of the trees the detector is run on; d/d/d/d/go.mod lies deeper
\* than the callback looks.
DetectUniverse ==
    {File(<<NameComposer>>, 1, 1, TRUE, <<>>),
     File(<<NamePackage>>, 1, 1, TRUE, <<>>),
     File(<<NameGoMod>>, 1, 1, TRUE, <<>>),
     File(<<NameDockerfile>>, 1, 1, TRUE, <<>>),
     File(<<NameIndexJs>>, 1, 1, TRUE, <<>>),
     File(<<NameXPhp>>, 1, 1, TRUE, <<>>),
     Dir(<<NameD>>),
     File(<<NameD, NamePackage>>, 1, 1, TRUE, <<>>),
     Dir(<<NameD, NameD>>),
     Dir(<<NameD, NameD, NameD>>),
     Dir(<<NameD, NameD, NameD, NameD>>),
     File(<<NameD, NameD, NameD, NameD, NameGoMod>>, 1, 1, TRUE, <<>>)}

DetectTrees ==
    {t \in SUBSET DetectUniverse :
        \A n \in t : Len(n.Rel) > 1 =>
            \E d \in t : d.IsDir /\ d.Rel = SubSeq(n.Rel, 1, Len(n.Rel) - 1)}

InitDetect ==
    /\ pc = "detect1"
    /\ detFiles \in DetectTrees
    /\ project = None
    /\ projectAgain = None
    /\ IdleCore /\ IdleFS /\ IdleWalk /\ IdleSec /\ IdleHash /\ IdleGen

\* DetectProjectType(rootPath), first run.
Detect ==
    /\ pc = "detect1"
    /\ \E order \in Orders(DOMAIN DetectedTypes(detFiles)),
          fallbackOrder \in Orders(DOMAIN FallbackCounts(detFiles)) :
            project' = DetectProjectType(detFiles, order, fallbackOrder)
    /\ pc' = "detect2"
    /\ UNCHANGED <<detFiles, projectAgain, coreVars, fsVars, walkVars, secVars,
                   hashVars, genVars>>

\* DetectProjectType(rootPath), second run on the same tree.
DetectAgain ==
    /\ pc = "detect2"
    /\ \E order \in Orders(DOMAIN DetectedTypes(detFiles)),
          fallbackOrder \in Orders(DOMAIN FallbackCounts(detFiles)) :
            projectAgain' = DetectProjectType(detFiles, order, fallbackOrder)
    /\ pc' = "detectDone"
    /\ UNCHANGED <<detFiles, project, coreVars, fsVars, walkVars, secVars,
                   hashVars, genVars>>

NextDetect == Detect \/ DetectAgain

SpecDetect == InitDetect /\ [][NextDetect]_vars

\* C15: the PrimaryLanguage detectProjectType returns has the maximal
\* marker-file hit count or, when no marker file matched, the maximal count of
\* known source-file extensions, and a second run on the unchanged tree
\* returns the same PrimaryLanguage, ties for the highest count included.
C15_PrimaryLanguageStable ==
    pc = "detectDone" =>
        LET counts == IF DOMAIN DetectedTypes(detFiles) # {}
                      THEN DetectedTypes(detFiles)
                      ELSE FallbackCounts(detFiles)
        IN /\ DOMAIN counts # {} =>
                /\ project.PrimaryLanguage \in DOMAIN counts
                /\ \A l \in DOMAIN counts :
                        counts[l] <= counts[project.PrimaryLanguage]
           /\ projectAgain.PrimaryLanguage = project.PrimaryLanguage

(***************************************************************************)
(* ComputeReportHash (SpecHash).  SHA-256 is computed as crypto/sha256     *)
(* computes it (FIPS 180-4), on 32-bit words held as pairs of 16-bit       *)
(* halves <<high, low>>; the data hashed fits one 64-byte block.           *)
(***************************************************************************)
Half == 65536

RECURSIVE Pow2(_)
Pow2(n) == IF n = 0 THEN 1 ELSE 2 * Pow2(n - 1)

\* Bitwise exclusive or, and, of two 16-bit halves.
RECURSIVE XorHalf(_, _)
XorHalf(a, b) ==
    IF a = 0 THEN b
    ELSE IF b = 0 THEN a
    ELSE (((a % 2) + (b % 2)) % 2) + 2 * XorHalf(a \div 2, b \div 2)

RECURSIVE AndHalf(_, _)
AndHalf(a, b) ==
    IF a = 0 \/ b = 0 THEN 0
    ELSE ((a % 2) * (b % 2)) + 2 * AndHalf(a \div 2, b \div 2)

Xor(x, y) == <<XorHalf(x[1], y[1]), XorHalf(x[2], y[2])>>
And(x, y) == <<AndHalf(x[1], y[1]), AndHalf(x[2], y[2])>>
Not(x) == <<Half - 1 - x[1], Half - 1 - x[2]>>

\* Addition modulo 2^32.
Add(x, y) ==
    LET low == x[2] + y[2] IN
    <<(x[1] + y[1] + low \div Half) % Half, low % Half>>

\* x >> n and the rotation of x right by n bits, 0 < n < 32.
Shr(x, n) ==
    IF n >= 16 THEN <<0, x[1] \div Pow2(n - 16)>>
    ELSE <<x[1] \div Pow2(n),
           x[2] \div Pow2(n) + (x[1] % Pow2(n)) * Pow2(16 - n)>>

Rotr(x, n) ==
    IF n >= 16
    THEN LET k == n - 16 IN
         <<x[2] \div Pow2(k) + (x[1] % Pow2(k)) * Pow2(16 - k),
           x[1] \div Pow2(k) + (x[2] % Pow2(k)) * Pow2(16 - k)>>
    ELSE <<x[1] \div Pow2(n) + (x[2] % Pow2(n)) * Pow2(16 - n),
           x[2] \div Pow2(n) + (x[1] % Pow2(n)) * Pow2(16 - n)>>

\* The round constants and the initial hash value.
K256 ==
    <<<<17034, 12184>>, <<28983, 17553>>, <<46528, 64463>>, <<59829, 56229>>,
      <<14678, 49755>>, <<23025, 4593>>, <<37439, 33444>>, <<43804, 24277>>,
      <<55303, 43672>>, <<4739, 23297>>, <<9265, 34238>>, <<21772, 32195>>,
      <<29374, 23924>>, <<32990, 45566>>, <<39900, 1703>>, <<49563, 61812>>,
      <<58523, 27073>>, <<61374, 18310>>, <<4033, 40390>>, <<9228, 41420>>,
      <<11753, 11375>>, <<19060, 33962>>, <<23728, 43484>>, <<30457, 35034>>,
      <<38974, 20818>>, <<43057, 50797>>, <<45059, 10184>>, <<48985, 32711>>,
      <<50912, 3059>>, <<54695, 37191>>, <<1738, 25425>>, <<5161, 10599>>,
      <<10167, 2693>>, <<11803, 8504>>, <<19756, 28156>>, <<21304, 3347>>,
      <<25866, 29524>>, <<30314, 2747>>, <<33218, 51502>>, <<37490, 11397>>,
      <<41663, 59553>>, <<43034, 26187>>, <<49739, 35696>>, <<51052, 20899>>,
      <<53650, 59417>>, <<54937, 1572>>, <<62478, 13701>>, <<4202, 41072>>,
      <<6564, 49430>>, <<7735, 27656>>, <<10056, 30540>>, <<13488, 48309>>,
      <<14620, 3251>>, <<20184, 43594>>, <<23452, 51791>>, <<26670, 28659>>,
      <<29839, 33518>>, <<30885, 25455>>, <<33992, 30740>>, <<36039, 520>>,
      <<37054, 65530>>, <<42064, 27883>>, <<48889, 41975>>, <<50801, 30962>>>>

InitialHash ==
    <<<<27145, 58983>>, <<47975, 44677>>, <<15470, 62322>>, <<42319, 62778>>,
      <<20750, 21119>>, <<39685, 26764>>, <<8067, 55723>>, <<23520, 52505>>>>

\* The message block: the bytes, 0x80, zeros, and the length in bits in the
\* last eight bytes.
Padded(bytes) ==
    [i \in 1..64 |->
        IF i <= Len(bytes) THEN bytes[i]
        ELSE IF i = Len(bytes) + 1 THEN 128
        ELSE IF i = 63 THEN (8 * Len(bytes)) \div 256
        ELSE IF i = 64 THEN (8 * Len(bytes)) % 256
        ELSE 0]

\* The message schedule, word by word.
ScheduleWord(w, block) ==
    LET i == Len(w) + 1 IN
    IF i <= 16
    THEN <<block[4 * i - 3] * 256 + block[4 * i - 2],
           block[4 * i - 1] * 256 + block[4 * i]>>
    ELSE LET s0 == Xor(Xor(Rotr(w[i - 15], 7), Rotr(w[i - 15], 18)),
                       Shr(w[i - 15], 3))
             s1 == Xor(Xor(Rotr(w[i - 2], 17), Rotr(w[i - 2], 19)),
                       Shr(w[i - 2], 10))
         IN Add(Add(w[i - 16], s0), Add(w[i - 7], s1))

\* The words lo..hi of the schedule appended to w; the range is halved so
\* that the evaluation stays shallow.
RECURSIVE Schedule(_, _, _, _)
Schedule(w, block, lo, hi) ==
    IF lo = hi THEN Append(w, ScheduleWord(w, block))
    ELSE LET mid == (lo + hi) \div 2 IN
         CHOOSE r \in {Schedule(first, block, mid + 1, hi) :
                        first \in {Schedule(w, block, lo, mid)}} : TRUE

\* One round on the working variables v = <<a, b, c, d, e, f, g, h>>.
Round(v, k, wi) ==
    LET S1 == Xor(Xor(Rotr(v[5], 6), Rotr(v[5], 11)), Rotr(v[5], 25))
        ch == Xor(And(v[5], v[6]), And(Not(v[5]), v[7]))
        S0 == Xor(Xor(Rotr(v[1], 2), Rotr(v[1], 13)), Rotr(v[1], 22))
        maj == Xor(Xor(And(v[1], v[2]), And(v[1], v[3])), And(v[2], v[3]))
    IN {<<Add(t1, t2), v[1], v[2], v[3], Add(v[4], t1), v[5], v[6], v[7]>> :
            t1 \in {Add(Add(Add(v[8], S1), Add(ch, k)), wi)}, t2 \in {Add(S0, maj)}}

\* The rounds lo..hi, halved in the same way.
RECURSIVE Rounds(_, _, _, _)
Rounds(v, w, lo, hi) ==
    IF lo = hi THEN CHOOSE r \in Round(v, K256[lo], w[lo]) : TRUE
    ELSE LET mid == (lo + hi) \div 2 IN
         CHOOSE r \in {Rounds(first, w, mid + 1, hi) :
                        first \in {Rounds(v, w, lo, mid)}} : TRUE

\* sha256.Sum256 of at most 55 bytes: the 32 bytes of the digest.
Sum256(bytes) ==
    LET v == CHOOSE r \in {Rounds(InitialHash, w, 1, 64) :
                            w \in {Schedule(<<>>, Padded(bytes), 1, 64)}} : TRUE
        h == [k \in 1..8 |-> Add(InitialHash[k], v[k])]
    IN [j \in 1..32 |->
            LET word == h[(j + 3) \div 4]
                half == IF (j - 1) % 4 < 2 THEN word[1] ELSE word[2]
            IN IF j % 2 = 1 THEN half \div 256 ELSE half % 256]

HexDigits == Digits \o <<"a", "b", "c", "d", "e", "f">>

\* fmt.Sprintf("%x", hash) of a byte array: two lower-case digits a byte.
RECURSIVE Hex(_)
Hex(bytes) ==
    IF bytes = <<>> THEN <<>>
    ELSE <<HexDigits[Head(bytes) \div 16 + 1], HexDigits[(Head(bytes) % 16) + 1]>>
            \o Hex(Tail(bytes))

\* []byte(data)
Bytes(s) == [i \in DOMAIN s |-> Code(s[i])]

\* The %s verb of fmt.Sprintf given a bool: the verb does not fit the operand.
FormatBoolAsString(b) ==
    IF b THEN <<"%", "!", "s", "(", "b", "o", "o", "l", "=", "t", "r", "u", "e",
            ")">> ELSE <<"%", "!", "s", "(", "b", "o", "o", "l", "=", "f", "a", "l", "s", "e", ")">>

\* Mutant of ReportData: the health score is part of the data hashed.
ReportDataWithScore(r) ==
    r.TargetPath \o <<"|">> \o Itoa(r.InvestigatedAt.sec) \o <<"|">>
        \o Itoa(Len(r.Findings)) \o <<"|">> \o Itoa(r.HealthScore)

\* fmt.Sprintf("%s|%d|%d|%s", TargetPath, InvestigatedAt.Unix(),
\* len(Findings), Evidence.Git.IsRepository)
ReportData(r) ==
    r.TargetPath \o <<"|">> \o Itoa(r.InvestigatedAt.sec) \o <<"|">>
        \o Itoa(Len(r.Findings)) \o <<"|">>
        \o FormatBoolAsString(r.Evidence.Git.IsRepository)

ComputeReportHash(r) == SubSeq(Hex(Sum256(Bytes(ReportData(r)))), 1, 16)

\* The reports hashed: paths, times (seconds and nanoseconds), findings,
\* evidence and the rest vary independently.
ReportPaths == {<<"p">>, <<"/", "s", "r", "v">>}
ReportTimes == {[sec |-> 200, nsec |-> 0], [sec |-> 200, nsec |-> 5],
                [sec |-> 1700000000, nsec |-> 0]}
ReportFindings ==
    {<<>>,
     <<[Title |-> "No Version Control", Severity |-> SeverityHigh]>>,
     <<[Title |-> "Pending Tasks", Severity |-> SeverityLow]>>}
ReportRest ==
    {[HealthScore |-> 90, Context |-> "default", TotalCommits |-> 12],
     [HealthScore |-> 55, Context |-> "student", TotalCommits |-> 3]}
Reports ==
    {[TargetPath |-> p, InvestigatedAt |-> t, Findings |-> f,
      Evidence |-> [Git |-> [IsRepository |-> g, TotalCommits |-> x.TotalCommits]],
      HealthScore |-> x.HealthScore, Context |-> x.Context] :
        p \in ReportPaths, t \in ReportTimes, f \in ReportFindings,
        g \in BOOLEAN, x \in ReportRest}

\* Two reports with the same path, whole seconds, number of findings and
\* repository flag.
SameHashedFields(r, s) ==
    /\ r.TargetPath = s.TargetPath
    /\ r.InvestigatedAt.sec = s.InvestigatedAt.sec
    /\ Len(r.Findings) = Len(s.Findings)
    /\ r.Evidence.Git.IsRepository = s.Evidence.Git.IsRepository

InitHash ==
    /\ pc = "hash"
    /\ report \in Reports
    /\ reportOther = None
    /\ hash = None
    /\ hashOther = None
    /\ IdleCore /\ IdleFS /\ IdleWalk /\ IdleSec /\ IdleDet /\ IdleGen

\* ComputeReportHash(report)
HashReport ==
    /\ pc = "hash"
    /\ hash' = ComputeReportHash(report)
    /\ pc' = "hashOther"
    /\ UNCHANGED <<report, reportOther, hashOther, coreVars, fsVars, walkVars,
                   secVars, detVars, genVars>>

\* ComputeReportHash of another report that has the same four values.
HashOtherReport ==
    /\ pc = "hashOther"
    /\ \E other \in {s \in Reports : SameHashedFields(report, s)} :
        /\ reportOther' = other
        /\ hashOther' = ComputeReportHash(other)
    /\ pc' = "hashDone"
    /\ UNCHANGED <<report, hash, coreVars, fsVars, walkVars, secVars, detVars,
                   genVars>>

NextHash == HashReport \/ HashOtherReport

SpecHash == InitHash /\ [][NextHash]_vars

\* C16: two reports with the same target path, timestamp in whole seconds,
\* number of findings and repository flag get the same hash whatever else
\* differs, and every hash is 16 hexadecimal characters long.
C16_HashOfFourFields ==
    /\ hash # None =>
        /\ Len(hash) = 16
        /\ \A i \in DOMAIN hash : \E d \in DOMAIN HexDigits : hash[i] = HexDigits[d]
    /\ pc = "hashDone" =>
        /\ Len(hashOther) = 16
        /\ SameHashedFields(report, reportOther) => hashOther = hash

\* C16 witness: the two reports differ in nanoseconds, findings, commits,
\* health score and context and got the hash SHA-256 gives "p|200|1|...".
C16_Witness ==
    /\ pc = "hashDone"
    /\ report.TargetPath = <<"p">>
    /\ report.InvestigatedAt = [sec |-> 200, nsec |-> 0]
    /\ reportOther.InvestigatedAt = [sec |-> 200, nsec |-> 5]
    /\ Len(report.Findings) = 1
    /\ report.Evidence.Git.IsRepository
    /\ report.Findings # reportOther.Findings
    /\ report.HealthScore # reportOther.HealthScore
    /\ report.Context # reportOther.Context
    /\ report.Evidence # reportOther.Evidence
    /\ hash = <<"b", "9", "4", "2", "5", "e", "3", "7", "8", "c", "1", "e", "a", "8", "f", "8">>
    /\ hashOther = hash

\* ---------------------------------------------------------------------------
\* Bonuses of the weighted health score
\* ---------------------------------------------------------------------------

\* C19: computeHealth applies its bonuses to the breakdown the penalties
\* leave: VersionControl is raised by 2, capped at 20, exactly when the
\* repository exists and has more than 10 commits; Testing is raised by 5,
\* capped at 10, exactly when there is a test file; Documentation is raised by
\* 5, capped at 10, exactly when there is a documentation file; no other
\* component changes after the penalties.
C19_BonusesAfterPenalties ==
    pc = "healthDone" =>
        /\ breakdown.VersionControl =
              IF hEvidence.IsRepository /\ hEvidence.TotalCommits > 10
              THEN min(20, penalised.VersionControl + 2)
              ELSE penalised.VersionControl
        /\ breakdown.Testing =
              IF hEvidence.TestFiles >= 1 THEN min(10, penalised.Testing + 5)
              ELSE penalised.Testing
        /\ breakdown.Documentation =
              IF hEvidence.DocumentationFiles >= 1
              THEN min(10, penalised.Documentation + 5)
              ELSE penalised.Documentation
        /\ breakdown.CodeQuality = penalised.CodeQuality
        /\ breakdown.Security = penalised.Security
        /\ breakdown.Performance = penalised.Performance

\* C19 witness: a High and a Low version-control finding leave VersionControl
\* at 14, a repository of 11 commits raises it to 16, and a test file and a
\* documentation file are present.
C19_Witness ==
    /\ pc = "healthDone"
    /\ Len(findings) = 2
    /\ findings[1].Category = FindingVersionControl
    /\ findings[1].Severity = SeverityHigh
    /\ findings[2].Category = FindingVersionControl
    /\ findings[2].Severity = SeverityLow
    /\ penalised.VersionControl = 14
    /\ hEvidence.IsRepository /\ hEvidence.TotalCommits = 11
    /\ breakdown.VersionControl = 16
    /\ hEvidence.TestFiles = 1 /\ hEvidence.DocumentationFiles = 1
    /\ breakdown.Testing = 10 /\ breakdown.Documentation = 10

\* ---------------------------------------------------------------------------
\* Finding generation (GenerateFindingsEnhanced) and the rendered order
\* ---------------------------------------------------------------------------

\* models.Finding as the generator fills it. Description and Recommendations
\* are left out: no rule reads them and the renderer orders by Severity only.
Finding(severity, title, evidence, category) ==
    [Severity |-> severity, Title |-> title, Evidence |-> evidence,
     Category |-> category]

\* %d of a count.
FormatInt(n) == Itoa(n)

\* A decimal number of at least two digits, as the layout elements 01 and 02
\* of time.Format print month and day.
Pad2(n) == IF n < 10 THEN <<"0">> \o Itoa(n) ELSE Itoa(n)

\* The layout element 2006: a year of at least four digits.
Pad4(n) ==
    IF n < 10 THEN <<"0", "0", "0">> \o Itoa(n)
    ELSE IF n < 100 THEN <<"0", "0">> \o Itoa(n)
    ELSE IF n < 1000 THEN <<"0">> \o Itoa(n)
    ELSE Itoa(n)

\* t.Format("2006-01-02") of a date [year, month, day].
FormatDate(t) == Pad4(t.year) \o <<"-">> \o Pad2(t.month) \o <<"-">> \o Pad2(t.day)

\* fmt.Sprintf("%.1f", x) of a float64 that is a whole number of halves, kept
\* as its number of tenths: such a value is held exactly and is printed
\* without rounding.
FormatTenths(x) == Itoa(x.tenths \div 10) \o <<".">> \o Itoa(x.tenths % 10)

\* The files of fs.LargestFiles over 1MB whose category is the given one.
LargeIn(fs, category) ==
    Cardinality({i \in DOMAIN fs.LargestFiles :
                    /\ fs.LargestFiles[i].Size > 1024 * 1024
                    /\ fs.LargestFiles[i].Category = category})

analyzeFileSystemEnhanced(fs) ==
    LET sourceCodeIssues == LargeIn(fs, CategorySource)
        buildArtifactIssues == LargeIn(fs, CategoryBuildArtifact)
    IN (IF fs.TotalFiles < 5
        THEN <<Finding(SeverityLow, <<"M", "i", "n", "i", "m", "a", "l", " ", "F", "i", "l",
                "e", " ", "C", "o", "u", "n", "t">>,
                       <<<<"T", "o", "t", "a", "l", " ", "f", "i", "l", "e", "s", ":",
                               " ">> \o FormatInt(fs.TotalFiles)>>,
                       FindingCodeQuality)>>
        ELSE <<>>)
       \o (IF sourceCodeIssues > 0
           THEN <<Finding(SeverityMedium, <<"L", "a", "r", "g", "e", " ", "S", "o", "u", "r",
                   "c", "e", " ", "C", "o", "d", "e", " ", "F", "i", "l", "e", "s">>,
                          <<FormatInt(sourceCodeIssues)
                                \o <<" ", "l", "a", "r", "g", "e", " ", "s", "o", "u", "r",
                                        "c", "e", " ", "f", "i", "l", "e", "s", " ", "d", "e",
                                        "t", "e", "c", "t", "e", "d">>>>,
                          FindingCodeQuality)>>
           ELSE <<>>)
       \o (IF buildArtifactIssues > 0
           THEN <<Finding(SeverityLow, <<"B", "u", "i", "l", "d", " ", "A", "r", "t", "i", "f",
                   "a", "c", "t", "s", " ", "i", "n", " ", "R", "e", "p", "o", "s", "i", "t",
                   "o", "r", "y">>,
                          <<FormatInt(buildArtifactIssues)
                                \o <<" ", "b", "u", "i", "l", "d", " ", "a", "r", "t", "i",
                                        "f", "a", "c", "t", "s", " ", "f", "o", "u", "n", "d">>>>,
                          FindingMaintainability)>>
           ELSE <<>>)
       \o (IF fs.CategorizedFiles.DocumentationFiles = 0
           THEN <<Finding(SeverityLow, <<"M", "i", "s", "s", "i", "n", "g", " ", "D", "o", "c",
                   "u", "m", "e", "n", "t", "a", "t", "i", "o", "n">>,
                          <<<<"N", "o", " ", ".", "m", "d", " ", "o", "r", " ", ".", "t", "x",
                                  "t", " ", "f", "i", "l", "e", "s", " ", "f", "o", "u", "n",
                                  "d">>>>,
                          FindingMaintainability)>>
           ELSE <<>>)
       \o (IF fs.CategorizedFiles.TestFiles = 0 /\ fs.CategorizedFiles.SourceFiles > 10
           THEN <<Finding(SeverityMedium, <<"N", "o", " ", "T", "e", "s", "t", " ", "F", "i",
                   "l", "e", "s", " ", "D", "e", "t", "e", "c", "t", "e", "d">>,
                          <<FormatInt(fs.CategorizedFiles.SourceFiles)
                                \o <<" ", "s", "o", "u", "r", "c", "e", " ", "f", "i", "l",
                                        "e", "s", ",", " ", "0", " ", "t", "e", "s", "t", " ",
                                        "f", "i", "l", "e", "s">>>>,
                          FindingCodeQuality)>>
           ELSE <<>>)

\* git.CommitMessageQuality < 0.5, the quality being goodMessages / commitCount
\* in float64 (0 when there is no commit).
QualityBelowHalf(q) == q.of = 0 \/ 2 * q.good < q.of

\* Mutant of analyzeGitEnhanced: no return after "No Version Control", so the
\* commit count rule is evaluated without a repository too.
analyzeGitEnhancedFallThrough(git) ==
    (IF ~git.IsRepository
     THEN <<Finding(SeverityHigh, <<"N", "o", " ", "V", "e", "r", "s", "i", "o", "n", " ", "C",
             "o", "n", "t", "r", "o", "l">>,
                    <<<<"N", "o", " ", ".", "g", "i", "t", " ", "d", "i", "r", "e", "c", "t",
                            "o", "r", "y", " ", "f", "o", "u", "n", "d">>>>, FindingVersionControl)>>
     ELSE <<>>)
    \o (IF git.TotalCommits < 10
        THEN <<Finding(SeverityLow, <<"L", "i", "m", "i", "t", "e", "d", " ", "C", "o",
                "m", "m", "i", "t", " ", "H", "i", "s", "t", "o", "r", "y">>,
                       <<<<"T", "o", "t", "a", "l", " ", "c", "o", "m", "m", "i", "t",
                               "s", ":", " ">> \o FormatInt(git.TotalCommits)>>,
                       FindingVersionControl)>>
        ELSE <<>>)

analyzeGitEnhanced(git) ==
    IF ~git.IsRepository
    THEN <<Finding(SeverityHigh, <<"N", "o", " ", "V", "e", "r", "s", "i", "o", "n", " ", "C",
            "o", "n", "t", "r", "o", "l">>,
                   <<<<"N", "o", " ", ".", "g", "i", "t", " ", "d", "i", "r", "e", "c", "t",
                           "o", "r", "y", " ", "f", "o", "u", "n", "d">>>>, FindingVersionControl)>>
    ELSE (IF git.UncommittedChanges
          THEN <<Finding(SeverityLow, <<"U", "n", "c", "o", "m", "m", "i", "t", "t", "e", "d",
                  " ", "C", "h", "a", "n", "g", "e", "s", " ", "D", "e", "t", "e", "c", "t",
                  "e", "d">>,
                         <<<<"G", "i", "t", " ", "s", "t", "a", "t", "u", "s", " ", "s", "h",
                                 "o", "w", "s", " ", "m", "o", "d", "i", "f", "i", "e", "d",
                                 " ", "f", "i", "l", "e", "s">>>>,
                         FindingVersionControl)>>
          ELSE <<>>)
         \o (IF git.CommitFrequency.Last30Days = 0 /\ git.TotalCommits > 10
             THEN <<Finding(SeverityMedium, <<"I", "n", "a", "c", "t", "i", "v", "e", " ", "R",
                     "e", "p", "o", "s", "i", "t", "o", "r", "y">>,
                            <<<<"L", "a", "s", "t", " ", "c", "o", "m", "m", "i", "t", ":",
                                    " ">> \o FormatDate(git.LastCommitDate)>>,
                            FindingVersionControl)>>
             ELSE IF git.CommitFrequency.Last7Days > 20
             THEN <<Finding(SeverityLow, <<"H", "i", "g", "h", " ", "C", "o", "m", "m", "i",
                     "t", " ", "F", "r", "e", "q", "u", "e", "n", "c", "y">>,
                            <<<<"A", "v", "e", "r", "a", "g", "e", " ">>
                                \o FormatTenths(git.CommitFrequency.AveragePerWeek)
                                \o <<" ", "c", "o", "m", "m", "i", "t", "s", "/", "w", "e",
                                        "e", "k">>>>,
                            FindingVersionControl)>>
             ELSE <<>>)
         \o (IF QualityBelowHalf(git.CommitMessageQuality) /\ git.TotalCommits > 10
             THEN <<Finding(SeverityLow, <<"L", "o", "w", " ", "C", "o", "m", "m", "i", "t",
                     " ", "M", "e", "s", "s", "a", "g", "e", " ", "Q", "u", "a", "l", "i", "t",
                     "y">>,
                            <<<<"M", "a", "n", "y", " ", "c", "o", "m", "m", "i", "t", "s",
                                    " ", "w", "i", "t", "h", " ", "m", "e", "s", "s", "a", "g",
                                    "e", "s", " ", "l", "i", "k", "e", " ", "'", "f", "i", "x",
                                    "'", ",", " ", "'", "W", "I", "P", "'", ",", " ", "'", "u",
                                    "p", "d", "a", "t", "e", "'">>>>,
                            FindingMaintainability)>>
             ELSE <<>>)
         \o (IF git.Contributors = 1 /\ git.TotalCommits > 50
             THEN <<Finding(SeverityLow, <<"S", "i", "n", "g", "l", "e", " ", "C", "o", "n",
                     "t", "r", "i", "b", "u", "t", "o", "r", " ", "(", "B", "u", "s", " ", "F",
                     "a", "c", "t", "o", "r", " ", "R", "i", "s", "k", ")">>,
                            <<FormatInt(git.TotalCommits) \o <<" ", "c", "o", "m", "m", "i",
                                    "t", "s", " ", "b", "y", " ", "1", " ", "p", "e", "r", "s",
                                    "o", "n">>>>,
                            FindingMaintainability)>>
             ELSE <<>>)
         \o (IF git.TotalCommits < 10
             THEN <<Finding(SeverityLow, <<"L", "i", "m", "i", "t", "e", "d", " ", "C", "o",
                     "m", "m", "i", "t", " ", "H", "i", "s", "t", "o", "r", "y">>,
                            <<<<"T", "o", "t", "a", "l", " ", "c", "o", "m", "m", "i", "t",
                                    "s", ":", " ">> \o FormatInt(git.TotalCommits)>>,
                            FindingVersionControl)>>
             ELSE <<>>)

\* Mutant of markerCounts: every marker counted under every type.
markerCountsAnyType(genMarkers, markerType) == Len(genMarkers)

\* markerCounts[markerType] after the counting loop (0 for an absent key).
markerCounts(genMarkers, markerType) ==
    Cardinality({i \in DOMAIN genMarkers : genMarkers[i].Type = markerType})

analyzeCodeMarkersEnhanced(genMarkers) ==
    LET known == markerCounts(genMarkers, "FIXME") + markerCounts(genMarkers, "BUG")
        todos == markerCounts(genMarkers, "TODO")
        hacks == markerCounts(genMarkers, "HACK")
    IN IF Len(genMarkers) = 0 THEN <<>>
       ELSE (IF known > 0
             THEN <<Finding(IF known > 10 THEN SeverityHigh ELSE SeverityMedium,
                            <<"K", "n", "o", "w", "n", " ", "I", "s", "s", "u", "e", "s", " ",
                                    "i", "n", " ", "C", "o", "d", "e">>,
                            <<<<"F", "I", "X", "M", "E", ":", " ">>
                                \o FormatInt(markerCounts(genMarkers, "FIXME"))
                                \o <<",", " ", "B", "U", "G", ":", " ">>
                                \o FormatInt(markerCounts(genMarkers, "BUG"))>>,
                            FindingCodeQuality)>>
             ELSE <<>>)
            \o (IF todos > 20
                THEN <<Finding(SeverityMedium, <<"H", "i", "g", "h", " ", "T", "O", "D", "O",
                        " ", "C", "o", "u", "n", "t">>,
                               <<<<"T", "O", "D", "O", " ", "m", "a", "r", "k", "e", "r", "s",
                                       ":", " ">> \o FormatInt(todos)>>,
                               FindingMaintainability)>>
                ELSE IF todos > 0
                THEN <<Finding(SeverityLow, <<"P", "e", "n", "d", "i", "n", "g", " ", "T", "a",
                        "s", "k", "s">>,
                               <<<<"T", "O", "D", "O", " ", "m", "a", "r", "k", "e", "r", "s",
                                       ":", " ">> \o FormatInt(todos)>>,
                               FindingMaintainability)>>
                ELSE <<>>)
            \o (IF hacks > 0
                THEN <<Finding(SeverityMedium, <<"T", "e", "c", "h", "n", "i", "c", "a", "l",
                        " ", "D", "e", "b", "t", " ", "I", "n", "d", "i", "c", "a", "t", "o",
                        "r", "s">>,
                               <<<<"H", "A", "C", "K", " ", "m", "a", "r", "k", "e", "r", "s",
                                       ":", " ">> \o FormatInt(hacks)>>,
                               FindingCodeQuality)>>
                ELSE <<>>)

\* "%s:%d - %s" of one secret or risk.
EvidenceLine(file, line, what) ==
    file \o <<":">> \o FormatInt(line) \o <<" ", "-", " ">> \o what

\* "... and %d more"
AndMore(n) == <<".", ".", ".", " ", "a", "n", "d", " ">> \o FormatInt(n) \o <<" ", "m", "o",
        "r", "e">>

buildSecretEvidence(secrets) ==
    [i \in 1..min(Len(secrets), 5) |->
        EvidenceLine(secrets[i].File, secrets[i].Line, secrets[i].Type)]
    \o (IF Len(secrets) > 5 THEN <<AndMore(Len(secrets) - 5)>> ELSE <<>>)

\* Mutant of buildSecurityRiskEvidence: only the line past the first five.
buildSecurityRiskEvidenceTail(risks) ==
    IF Len(risks) > 5 THEN <<AndMore(Len(risks) - 5)>> ELSE <<>>

buildSecurityRiskEvidence(risks) ==
    [i \in 1..min(Len(risks), 5) |->
        EvidenceLine(risks[i].File, risks[i].Line, risks[i].Description)]
    \o (IF Len(risks) > 5 THEN <<AndMore(Len(risks) - 5)>> ELSE <<>>)

analyzeSecurityEvidence(security) ==
    (IF Len(security.HardcodedSecrets) > 0
     THEN <<Finding(SeverityCritical, <<"H", "a", "r", "d", "c", "o", "d", "e", "d", " ", "S",
             "e", "c", "r", "e", "t", "s", " ", "D", "e", "t", "e", "c", "t", "e", "d">>,
                    buildSecretEvidence(security.HardcodedSecrets),
                    FindingSecurity)>>
     ELSE <<>>)
    \o (IF Len(security.SQLInjectionRisks) > 0
        THEN <<Finding(SeverityHigh, <<"S", "Q", "L", " ", "I", "n", "j", "e", "c", "t", "i",
                "o", "n", " ", "V", "u", "l", "n", "e", "r", "a", "b", "i", "l", "i", "t", "y",
                " ", "P", "a", "t", "t", "e", "r", "n", "s">>,
                       buildSecurityRiskEvidence(security.SQLInjectionRisks),
                       FindingSecurity)>>
        ELSE <<>>)
    \o (IF Len(security.XSSRisks) > 0
        THEN <<Finding(SeverityMedium, <<"C", "r", "o", "s", "s", "-", "S", "i", "t", "e", " ",
                "S", "c", "r", "i", "p", "t", "i", "n", "g", " ", "(", "X", "S", "S", ")", " ",
                "R", "i", "s", "k", "s">>,
                       buildSecurityRiskEvidence(security.XSSRisks),
                       FindingSecurity)>>
        ELSE <<>>)
    \o (IF Len(security.InsecurePatterns) > 0
        THEN <<Finding(SeverityMedium, <<"I", "n", "s", "e", "c", "u", "r", "e", " ", "C", "o",
                "d", "i", "n", "g", " ", "P", "a", "t", "t", "e", "r", "n", "s">>,
                       buildSecurityRiskEvidence(security.InsecurePatterns),
                       FindingSecurity)>>
        ELSE <<>>)

analyzeProjectType(projectType) ==
    IF projectType.Framework = <<>> THEN <<>>
    ELSE <<Finding(SeverityLow, projectType.Framework \o <<" ", "P", "r", "o", "j", "e", "c",
            "t", " ", "D", "e", "t", "e", "c", "t", "e", "d">>,
                   projectType.DetectedFiles, FindingCodeQuality)>>

GenerateFindingsEnhanced(evidence) ==
    analyzeFileSystemEnhanced(evidence.FileSystem)
        \o analyzeGitEnhanced(evidence.Git)
        \o analyzeCodeMarkersEnhanced(evidence.CodeMarkers)
        \o analyzeSecurityEvidence(evidence.Security)
        \o analyzeProjectType(evidence.ProjectType)

\* The less function given to sort.Slice: findings[i].Severity > findings[j].Severity
Less(x, y) == x.Severity > y.Severity

\* The inner loop of insertionSort: for j := i; j > a && less(j, j-1); j--
RECURSIVE SiftLeft(_, _)
SiftLeft(data, j) ==
    IF j > 1 /\ Less(data[j], data[j - 1]) THEN SiftLeft(Swap(data, j, j - 1), j - 1)
    ELSE data

\* insertionSort, from index i on.
RECURSIVE insertionSort(_, _)
insertionSort(data, i) ==
    IF i > Len(data) THEN data ELSE insertionSort(SiftLeft(data, i), i + 1)

\* The longest slice sort.Slice sorts by insertion alone.
maxInsertion == 12

\* The orders in which the findings of one severity can be left.
ClassOrders(data, severity) ==
    Orders({i \in DOMAIN data : data[i].Severity = severity})

\* What sort.Slice can leave in the slice. It sorts by less and "is not
\* guaranteed to be stable": up to maxInsertion elements are sorted by
\* insertion, which keeps equal elements in order; a longer slice is
\* partitioned around pivots, which exchanges distant elements, and can be left
\* in any order in which no element is less than an earlier one.
sortSlice(data) ==
    IF Len(data) <= maxInsertion THEN {insertionSort(data, 2)}
    ELSE {[k \in DOMAIN data |-> data[(c \o h \o m \o l)[k]]] :
            c \in ClassOrders(data, SeverityCritical),
            h \in ClassOrders(data, SeverityHigh),
            m \in ClassOrders(data, SeverityMedium),
            l \in ClassOrders(data, SeverityLow)}

\* The order generateFindingsSectionStyled lists the findings in.
generateFindingsSectionStyled(genFindings) ==
    IF Len(genFindings) = 0 THEN {genFindings} ELSE sortSlice(genFindings)

\* File system evidence: a healthy tree, a tree of three files without
\* documentation (its largest file is exactly 1MB), and a tree of eleven source
\* files without tests or documentation whose largest files exceed 1MB.
GenFileSystems ==
    {[TotalFiles |-> 12,
      LargestFiles |-> <<[Size |-> 2000, Category |-> CategorySource]>>,
      CategorizedFiles |->
          [DocumentationFiles |-> 1, TestFiles |-> 1, SourceFiles |-> 10]],
     [TotalFiles |-> 3,
      LargestFiles |-> <<[Size |-> 1024 * 1024, Category |-> CategorySource]>>,
      CategorizedFiles |->
          [DocumentationFiles |-> 0, TestFiles |-> 0, SourceFiles |-> 3]],
     [TotalFiles |-> 14,
      LargestFiles |-> <<[Size |-> 1024 * 1024 + 3, Category |-> CategoryAsset],
                         [Size |-> 1024 * 1024 + 2, Category |-> CategorySource],
                         [Size |-> 1024 * 1024 + 1, Category |-> CategoryBuildArtifact]>>,
      CategorizedFiles |->
          [DocumentationFiles |-> 0, TestFiles |-> 0, SourceFiles |-> 11]]}

GitEvidence(isRepo, commits, people, last, in7, in30, average, dirty, quality) ==
    [IsRepository |-> isRepo, TotalCommits |-> commits, Contributors |-> people,
     LastCommitDate |-> last,
     CommitFrequency |-> [Last7Days |-> in7, Last30Days |-> in30,
                          AveragePerWeek |-> average],
     UncommittedChanges |-> dirty, CommitMessageQuality |-> quality]

\* time.Time{}: January 1, year 1.
ZeroTime == [year |-> 1, month |-> 1, day |-> 1]

\* Git evidence: no repository; a healthy repository; one man's repository of
\* 60 terse commits, the last on 2023-04-09, with changes pending; a busy
\* repository with changes pending; a repository of three commits.
GenGits ==
    {GitEvidence(FALSE, 0, 0, ZeroTime, 0, 0, [tenths |-> 0], FALSE,
                 [good |-> 0, of |-> 0]),
     GitEvidence(TRUE, 12, 2, [year |-> 2024, month |-> 12, day |-> 25], 1, 3,
                 [tenths |-> 15], FALSE, [good |-> 10, of |-> 12]),
     GitEvidence(TRUE, 60, 1, [year |-> 2023, month |-> 4, day |-> 9], 0, 0,
                 [tenths |-> 5], TRUE, [good |-> 20, of |-> 60]),
     GitEvidence(TRUE, 42, 3, [year |-> 2024, month |-> 12, day |-> 31], 21, 42,
                 [tenths |-> 105], TRUE, [good |-> 21, of |-> 42]),
     GitEvidence(TRUE, 3, 1, [year |-> 2024, month |-> 12, day |-> 31], 3, 3,
                 [tenths |-> 30], FALSE, [good |-> 3, of |-> 3])}

\* n markers of one type.
Markers(markerType, n) == [i \in 1..n |-> [Type |-> markerType]]

\* Code markers: none; one TODO; notes only; one BUG; 9 FIXME, a BUG, 20 TODO
\* and a NOTE, the largest counts that do not escalate; 11 FIXME, 21 TODO and
\* a HACK.
GenMarkers ==
    {<<>>, Markers("TODO", 1), Markers("NOTE", 2), Markers("BUG", 1),
     Markers("FIXME", 9) \o Markers("BUG", 1) \o Markers("TODO", 20) \o Markers("NOTE", 1),
     Markers("FIXME", 11) \o Markers("TODO", 21) \o Markers("HACK", 1)}

GenSecurityPath == Join(RootPath, NameAGo)

LinePwd == <<"p", "w", "d", "=", "\"", "h", "u", "n", "t", "e", "r", "2", "2", "\"">>

\* The lines of the files the security evidence is scanned from.
GenSecurityLines ==
    {<<>>, <<LineHttp>>, <<LineMd5>>, <<LineLocal, LineMd5, LineHttp>>,
     <<LineMd5, LineMd5, LineMd5, LineMd5, LineMd5, LineMd5>>, <<LineGhToken>>,
     <<LinePwd, LinePwd, LinePwd, LineSql, LineXss, LineMd5, LinePwd, LinePwd,
       LinePwd, LineHttp>>}

\* Security evidence: what ScanSecurity collects from a file of each of the
\* given lists of lines.
GenSecurities(files) ==
    UNION {{ScanSecurityLines(EmptySecurityEvidence, GenSecurityPath, lines, 1, orders) :
                orders \in SecretOrders(lines)} : lines \in files}

\* The trees the project type is detected on: those of at most two nodes.
GenTrees == {t \in DetectTrees : Cardinality(t) <= 2}

\* Project types: what DetectProjectType returns on the given trees.
GenProjectTypes(trees) ==
    UNION {{DetectProjectType(t, order, fallbackOrder) :
                order \in Orders(DOMAIN DetectedTypes(t)),
                fallbackOrder \in Orders(DOMAIN FallbackCounts(t))} : t \in trees}

Evidence(fs, git, genMarkers, security, projectType) ==
    [FileSystem |-> fs, Git |-> git, CodeMarkers |-> genMarkers,
     Security |-> security, ProjectType |-> projectType]

HealthyFileSystem == CHOOSE fs \in GenFileSystems : fs.TotalFiles = 12
HealthyGit == CHOOSE git \in GenGits : git.TotalCommits = 12

\* The evidence with the most findings among those generated from: the tree
\* without tests, no repository, the 33 markers, the file of ten lines and
\* composer.json alone.
HeavyEvidence(securities, projectTypes) ==
    {Evidence(fs, git, genMarkers, security, p) :
        fs \in {fs \in GenFileSystems : fs.TotalFiles = 14},
        git \in {git \in GenGits : ~git.IsRepository},
        genMarkers \in {ms \in GenMarkers : Len(ms) = 33},
        security \in {s \in securities : Len(s.HardcodedSecrets) = 6},
        p \in {p \in projectTypes :
                    p.DetectedFiles = <<NameComposer, NameComposer>>}}

\* The evidence findings are generated from: every file system, git and project
\* evidence with no marker and no security match; every marker, security and
\* project evidence with the healthy tree and repository; the heavy one.
GenEvidence(securities, projectTypes) ==
    {Evidence(fs, git, <<>>, EmptySecurityEvidence, p) :
        fs \in GenFileSystems, git \in GenGits, p \in projectTypes}
    \cup {Evidence(HealthyFileSystem, HealthyGit, genMarkers, security, p) :
            genMarkers \in GenMarkers, security \in securities, p \in projectTypes}
    \cup HeavyEvidence(securities, projectTypes)

InitGenerate ==
    /\ pc = "generate"
    /\ genEvidence \in GenEvidence(GenSecurities(GenSecurityLines),
                                   GenProjectTypes(GenTrees))
    /\ generated = None
    /\ rendered = None
    /\ notes = None
    /\ IdleCore /\ IdleFS /\ IdleWalk /\ IdleSec /\ IdleDet /\ IdleHash

\* findings := GenerateFindingsEnhanced(evidence)
Generate ==
    /\ pc = "generate"
    /\ generated' = GenerateFindingsEnhanced(genEvidence)
    /\ pc' = "render"
    /\ UNCHANGED <<genEvidence, rendered, notes, coreVars, fsVars, walkVars,
                   secVars, detVars, hashVars>>

\* generateFindingsSectionStyled(findings, style): the findings as listed.
Render ==
    /\ pc = "render"
    /\ rendered' \in generateFindingsSectionStyled(generated)
    /\ pc' = "rendered"
    /\ UNCHANGED <<genEvidence, generated, notes, coreVars, fsVars, walkVars,
                   secVars, detVars, hashVars>>

NextGenerate == Generate \/ Render

SpecGenerate == InitGenerate /\ [][NextGenerate]_vars

OfSeverity(fs, severity) == SelectSeq(fs, LAMBDA f : f.Severity = severity)

\* The findings by severity descending, equal severities in the order of fs.
StableBySeverity(fs) ==
    OfSeverity(fs, SeverityCritical) \o OfSeverity(fs, SeverityHigh)
        \o OfSeverity(fs, SeverityMedium) \o OfSeverity(fs, SeverityLow)

\* C18: the findings are rendered by severity descending, and findings of
\* equal severity are rendered in the order generateFindings emitted them
\* (file system, git, markers, security, project type).
C18_StableOnTies ==
    pc = "rendered" => rendered = StableBySeverity(generated)

\* C20: the finding generated for the other insecure patterns carries a
\* severity recorded on the risks themselves: when every insecure pattern
\* found is a Low plain-http use, this rule yields no Medium finding.
C20_InsecureSeverityInherited ==
    pc \in {"render", "rendered"} =>
        \A i \in DOMAIN generated :
            generated[i].Title = <<"I", "n", "s", "e", "c", "u", "r", "e", " ", "C", "o", "d",
                    "i", "n", "g", " ", "P", "a", "t", "t", "e", "r", "n", "s">> =>
                \E k \in DOMAIN genEvidence.Security.InsecurePatterns :
                    generated[i].Severity
                        = genEvidence.Security.InsecurePatterns[k].Severity

\* ---------------------------------------------------------------------------
\* Rule groups of the finding generator
\* ---------------------------------------------------------------------------

\* The severity the rule table gives to a file over 1MB of a category.
LargeFileSeverity(category) ==
    IF category = CategorySource THEN SeverityHigh
    ELSE IF category = CategoryTest THEN SeverityMedium
    ELSE SeverityLow

\* C21: for each file of LargestFiles larger than 1 MiB of category source,
\* test, build-artifact, dependency or asset, the findings hold a
\* performance finding of severity High, Medium, Low, Low, Low respectively;
\* when no file of LargestFiles is larger than 1 MiB there is no performance
\* finding.
C21_LargeFilePerformanceFindings ==
    pc \in {"render", "rendered"} =>
        LET files == genEvidence.FileSystem.LargestFiles
            large == {i \in DOMAIN files : files[i].Size > 1024 * 1024}
        IN /\ \A i \in large :
                files[i].Category \in {CategorySource, CategoryTest, CategoryAsset,
                                       CategoryBuildArtifact, CategoryDependency} =>
                    \E k \in DOMAIN generated :
                        /\ generated[k].Category = FindingPerformance
                        /\ generated[k].Severity = LargeFileSeverity(files[i].Category)
           /\ large = {} =>
                \A k \in DOMAIN generated : generated[k].Category # FindingPerformance

\* The titles of the rules analyzeGitEnhanced has past the repository test.
GitRuleTitles ==
    {<<"U", "n", "c", "o", "m", "m", "i", "t", "t", "e", "d", " ", "C", "h", "a", "n", "g",
            "e", "s", " ", "D", "e", "t", "e", "c", "t", "e", "d">>, <<"I", "n", "a", "c", "t",
            "i", "v", "e", " ", "R", "e", "p", "o", "s", "i", "t", "o", "r", "y">>,
     <<"H", "i", "g", "h", " ", "C", "o", "m", "m", "i", "t", " ", "F", "r", "e", "q", "u",
             "e", "n", "c", "y">>, <<"L", "o", "w", " ", "C", "o", "m", "m", "i", "t", " ",
             "M", "e", "s", "s", "a", "g", "e", " ", "Q", "u", "a", "l", "i", "t", "y">>,
     <<"S", "i", "n", "g", "l", "e", " ", "C", "o", "n", "t", "r", "i", "b", "u", "t", "o",
             "r", " ", "(", "B", "u", "s", " ", "F", "a", "c", "t", "o", "r", " ", "R", "i",
             "s", "k", ")">>, <<"L", "i", "m", "i", "t", "e", "d", " ", "C", "o", "m", "m",
             "i", "t", " ", "H", "i", "s", "t", "o", "r", "y">>}

\* C22: when IsRepository is false the git rules yield exactly one finding,
\* "No Version Control", High, of category version-control, with one evidence
\* line, and no finding of any other git rule, although the zero commit count
\* and the zero message quality meet the triggers of two of them.
C22_OnlyNoVersionControl ==
    (pc \in {"render", "rendered"} /\ ~genEvidence.Git.IsRepository) =>
        LET versionControl == {i \in DOMAIN generated :
                                  generated[i].Category = FindingVersionControl}
        IN /\ Cardinality(versionControl) = 1
           /\ \A i \in versionControl :
                /\ generated[i].Title = <<"N", "o", " ", "V", "e", "r", "s", "i", "o", "n",
                        " ", "C", "o", "n", "t", "r", "o", "l">>
                /\ generated[i].Severity = SeverityHigh
                /\ generated[i].Evidence = <<<<"N", "o", " ", ".", "g", "i", "t", " ", "d",
                        "i", "r", "e", "c", "t", "o", "r", "y", " ", "f", "o", "u", "n", "d">>>>
           /\ \A i \in DOMAIN generated : generated[i].Title \notin GitRuleTitles

\* C22 witness: findings generated without a repository: zero commits and a
\* zero quality, which are below 10 and below 0.5, and the git finding follows
\* the four file system findings of the tree of 14 files.
C22_Witness ==
    /\ pc = "render"
    /\ ~genEvidence.Git.IsRepository
    /\ genEvidence.Git.TotalCommits = 0
    /\ QualityBelowHalf(genEvidence.Git.CommitMessageQuality)
    /\ genEvidence.FileSystem.TotalFiles = 14
    /\ Len(generated) = 5
    /\ generated[5].Title = <<"N", "o", " ", "V", "e", "r", "s", "i", "o", "n", " ", "C", "o",
            "n", "t", "r", "o", "l">>

\* The findings of the given list that bear one of the given titles.
Titled(fs, titles) == {i \in DOMAIN fs : fs[i].Title \in titles}

\* C23: the marker rules yield at most one finding each: one for FIXME and
\* BUG exactly when there is such a marker, High for more than 10 of them and
\* Medium otherwise; one for TODO exactly when there is a TODO, Medium for
\* more than 20 and Low otherwise; one Medium finding for HACK exactly when
\* there is a HACK; NOTE markers add no finding: the list is as long as the
\* list generated without markers plus these findings.
C23_MarkerRules ==
    pc \in {"render", "rendered"} =>
        LET ms == genEvidence.CodeMarkers
            Count(t) == Cardinality({i \in DOMAIN ms : ms[i].Type = t})
            issues == Titled(generated, {<<"K", "n", "o", "w", "n", " ", "I", "s", "s", "u",
                    "e", "s", " ", "i", "n", " ", "C", "o", "d", "e">>})
            pending == Titled(generated, {<<"H", "i", "g", "h", " ", "T", "O", "D", "O", " ", "C",
                    "o", "u", "n", "t">>, <<"P", "e", "n", "d", "i", "n", "g", " ", "T", "a",
                    "s", "k", "s">>})
            debt == Titled(generated, {<<"T", "e", "c", "h", "n", "i", "c", "a", "l", " ", "D",
                    "e", "b", "t", " ", "I", "n", "d", "i", "c", "a", "t", "o", "r", "s">>})
            unmarked == GenerateFindingsEnhanced([genEvidence EXCEPT !.CodeMarkers = <<>>])
        IN /\ Cardinality(issues) = IF Count("FIXME") + Count("BUG") > 0 THEN 1 ELSE 0
           /\ \A i \in issues :
                generated[i].Severity = IF Count("FIXME") + Count("BUG") > 10
                                        THEN SeverityHigh ELSE SeverityMedium
           /\ Cardinality(pending) = IF Count("TODO") > 0 THEN 1 ELSE 0
           /\ \A i \in pending :
                generated[i].Severity = IF Count("TODO") > 20
                                        THEN SeverityMedium ELSE SeverityLow
           /\ Cardinality(debt) = IF Count("HACK") > 0 THEN 1 ELSE 0
           /\ \A i \in debt : generated[i].Severity = SeverityMedium
           /\ Len(generated) = Len(unmarked) + Cardinality(issues \cup pending \cup debt)

\* C23 witness: ten FIXME and BUG markers, twenty TODO markers and a NOTE give
\* a Medium and a Low finding, the healthy tree and repository none.
C23_Witness ==
    /\ pc = "render"
    /\ markerCounts(genEvidence.CodeMarkers, "FIXME") = 9
    /\ markerCounts(genEvidence.CodeMarkers, "BUG") = 1
    /\ markerCounts(genEvidence.CodeMarkers, "TODO") = 20
    /\ markerCounts(genEvidence.CodeMarkers, "NOTE") = 1
    /\ Len(genEvidence.Security.HardcodedSecrets) = 0
    /\ Len(generated) >= 2
    /\ generated[1].Title = <<"K", "n", "o", "w", "n", " ", "I", "s", "s", "u", "e", "s", " ",
            "i", "n", " ", "C", "o", "d", "e">>
    /\ generated[1].Severity = SeverityMedium
    /\ generated[2].Title = <<"P", "e", "n", "d", "i", "n", "g", " ", "T", "a", "s", "k", "s">>
    /\ generated[2].Severity = SeverityLow

\* ---------------------------------------------------------------------------
\* Investigator notes (GenerateInvestigatorNotes)
\* ---------------------------------------------------------------------------

\* The texts of the notes, each from its first letter to the end of its first
\* sentence (the pictograph and the blanks every note starts with and the
\* sentences that follow are constant and left out).
NoteBinary == <<"C", "o", "m", "p", "i", "l", "e", "d", " ", "b", "i", "n", "a", "r", "y", " ",
        "a", "r", "t", "i", "f", "a", "c", "t", "s", " ", "d", "e", "t", "e", "c", "t", "e",
        "d", " ", "i", "n", " ", "p", "r", "o", "j", "e", "c", "t", " ", "r", "o", "o", "t", ".">>
NoteNoRepository == <<"N", "o", " ", "v", "e", "r", "s", "i", "o", "n", " ", "c", "o", "n",
        "t", "r", "o", "l", " ", "d", "e", "t", "e", "c", "t", "e", "d", ".">>
NoteEmptyRepository == <<"G", "i", "t", " ", "r", "e", "p", "o", "s", "i", "t", "o", "r", "y",
        " ", "i", "n", "i", "t", "i", "a", "l", "i", "z", "e", "d", " ", "b", "u", "t", " ",
        "e", "m", "p", "t", "y", ".">>
NoteTodo == <<"H", "i", "g", "h", " ", "T", "O", "D", "O", " ", "m", "a", "r", "k", "e", "r",
        " ", "d", "e", "n", "s", "i", "t", "y", " ", "s", "u", "g", "g", "e", "s", "t", "s",
        " ", "a", "m", "b", "i", "t", "i", "o", "u", "s", " ", "r", "o", "a", "d", "m", "a",
        "p", " ", "o", "r", " ", "i", "n", "c", "o", "m", "p", "l", "e", "t", "e", " ", "f",
        "e", "a", "t", "u", "r", "e", " ", "s", "e", "t", ".">>
NoteDebt == <<"E", "l", "e", "v", "a", "t", "e", "d", " ", "t", "e", "c", "h", "n", "i", "c",
        "a", "l", " ", "d", "e", "b", "t", " ", "i", "n", "d", "i", "c", "a", "t", "o", "r",
        "s", ".">>
NoteMaturity == <<"M", "a", "t", "u", "r", "i", "t", "y", " ", "i", "n", "d", "i", "c", "a",
        "t", "o", "r", "s", " ", "p", "r", "e", "s", "e", "n", "t", ":", " ", "S", "u", "b",
        "s", "t", "a", "n", "t", "i", "a", "l", " ", "c", "o", "d", "e", "b", "a", "s", "e",
        " ", "w", "i", "t", "h", " ", "c", "o", "l", "l", "a", "b", "o", "r", "a", "t", "i",
        "v", "e", " ", "h", "i", "s", "t", "o", "r", "y", " ", "s", "u", "g", "g", "e", "s",
        "t", "s", " ", "e", "s", "t", "a", "b", "l", "i", "s", "h", "e", "d", " ", "p", "r",
        "o", "j", "e", "c", "t", ".">>

calculateBurstPercentage(evidence) ==
    IF evidence.Timeline.BurstDaySpan = 0 THEN 100 ELSE 80

\* "Activity burst detected: %d%% of files modified within %d days."
NoteBurst(evidence) ==
    <<"A", "c", "t", "i", "v", "i", "t", "y", " ", "b", "u", "r", "s", "t", " ", "d", "e", "t",
            "e", "c", "t", "e", "d", ":", " ">> \o FormatInt(calculateBurstPercentage(evidence))
        \o <<"%", " ", "o", "f", " ", "f", "i", "l", "e", "s", " ", "m", "o", "d", "i", "f",
                "i", "e", "d", " ", "w", "i", "t", "h", "i", "n",
                " ">> \o FormatInt(evidence.Timeline.BurstDaySpan)
        \o <<" ", "d", "a", "y", "s", ".">>

\* "Dormancy detected: No file modifications for %d days."
NoteDormancy(evidence) ==
    <<"D", "o", "r", "m", "a", "n", "c", "y", " ", "d", "e", "t", "e", "c", "t", "e", "d", ":",
            " ", "N", "o", " ", "f", "i", "l", "e", " ", "m", "o", "d", "i", "f", "i", "c",
            "a", "t", "i", "o", "n", "s", " ", "f", "o", "r", " ">>
        \o FormatInt(evidence.Timeline.MostRecentDay) \o <<" ", "d", "a", "y", "s", ".">>

countMarkerType(ms, markerType) ==
    Cardinality({i \in DOMAIN ms : ms[i].Type = markerType})

\* The file is a compiled binary by the suffix of its lower-cased path.
IsBinaryPath(path) ==
    HasSuffix(ToLower(path), <<".", "e", "x", "e">>) \/ HasSuffix(ToLower(path), <<".", "d",
            "l", "l">>)

\* Mutant of binaryNotes: the loop does not break at the first binary.
binaryNotesEach(files) ==
    [i \in 1..Cardinality({i \in DOMAIN files : IsBinaryPath(files[i].Path)}) |->
        NoteBinary]

\* The loop over LargestFiles: one note at the first binary, then break.
binaryNotes(files) ==
    IF \E i \in DOMAIN files : IsBinaryPath(files[i].Path) THEN <<NoteBinary>> ELSE <<>>

GenerateInvestigatorNotes(evidence) ==
    LET todoCount == countMarkerType(evidence.CodeMarkers, "TODO")
        fixmeCount == countMarkerType(evidence.CodeMarkers, "FIXME")
        hackCount == countMarkerType(evidence.CodeMarkers, "HACK")
    IN binaryNotes(evidence.FileSystem.LargestFiles)
       \o (IF ~evidence.Git.IsRepository THEN <<NoteNoRepository>>
           ELSE IF evidence.Git.TotalCommits = 0 THEN <<NoteEmptyRepository>>
           ELSE <<>>)
       \o (IF evidence.Timeline.ActivityBurst THEN <<NoteBurst(evidence)>>
           ELSE IF evidence.Timeline.MostRecentDay > 180 THEN <<NoteDormancy(evidence)>>
           ELSE <<>>)
       \o (IF todoCount > 20 THEN <<NoteTodo>> ELSE <<>>)
       \o (IF fixmeCount + hackCount > 5 THEN <<NoteDebt>> ELSE <<>>)
       \o (IF /\ evidence.FileSystem.TotalFiles > 100
              /\ evidence.Git.TotalCommits > 50
              /\ evidence.Git.Contributors > 2
           THEN <<NoteMaturity>> ELSE <<>>)

\* Largest files: none; a source file; a binary; three binaries; a source file
\* and a library named in capitals; a text file named after a binary.
NotesLargestFiles ==
    {<<>>, <<[Path |-> <<"m", "a", "i", "n", ".", "g", "o">>]>>, <<[Path |-> <<"a", ".", "e",
            "x", "e">>]>>,
     <<[Path |-> <<"a", ".", "e", "x", "e">>], [Path |-> <<"b", ".", "d", "l", "l">>],
             [Path |-> <<"c", ".", "e", "x", "e">>]>>,
     <<[Path |-> <<"m", "a", "i", "n", ".", "g", "o">>], [Path |-> <<"B", ".", "D", "L", "L">>]>>,
     <<[Path |-> <<"a", ".", "e", "x", "e", ".", "t", "x", "t">>]>>}

\* IsRepository, TotalCommits, Contributors.
NotesGits ==
    {[IsRepository |-> FALSE, TotalCommits |-> 0, Contributors |-> 0],
     [IsRepository |-> TRUE, TotalCommits |-> 0, Contributors |-> 0],
     [IsRepository |-> TRUE, TotalCommits |-> 51, Contributors |-> 3],
     [IsRepository |-> TRUE, TotalCommits |-> 51, Contributors |-> 2],
     [IsRepository |-> TRUE, TotalCommits |-> 50, Contributors |-> 3]}

NotesTimelines ==
    {[ActivityBurst |-> TRUE, BurstDaySpan |-> 0, MostRecentDay |-> 0],
     [ActivityBurst |-> TRUE, BurstDaySpan |-> 7, MostRecentDay |-> 181],
     [ActivityBurst |-> FALSE, BurstDaySpan |-> 30, MostRecentDay |-> 181],
     [ActivityBurst |-> FALSE, BurstDaySpan |-> 30, MostRecentDay |-> 180]}

NotesMarkers ==
    {<<>>, Markers("TODO", 20), Markers("TODO", 21),
     Markers("FIXME", 3) \o Markers("HACK", 2),
     Markers("FIXME", 3) \o Markers("TODO", 21) \o Markers("HACK", 3),
     Markers("BUG", 6)}

InitNotes ==
    /\ pc = "notes"
    /\ genEvidence \in
          {[FileSystem |-> [LargestFiles |-> files, TotalFiles |-> total], Git |-> git,
            Timeline |-> tl, CodeMarkers |-> ms] :
              files \in NotesLargestFiles, total \in {100, 101}, git \in NotesGits,
              tl \in NotesTimelines, ms \in NotesMarkers}
    /\ generated = None
    /\ rendered = None
    /\ notes = None
    /\ IdleCore /\ IdleFS /\ IdleWalk /\ IdleSec /\ IdleDet /\ IdleHash

\* notes := GenerateInvestigatorNotes(evidence)
GenerateNotes ==
    /\ pc = "notes"
    /\ notes' = GenerateInvestigatorNotes(genEvidence)
    /\ pc' = "notesDone"
    /\ UNCHANGED <<genEvidence, generated, rendered, coreVars, fsVars, walkVars,
                   secVars, detVars, hashVars>>

NextNotes == GenerateNotes

SpecNotes == InitNotes /\ [][NextNotes]_vars

\* The place of a note in the fixed order, by the words it starts with:
\* 1 binary, 2 version control, 3 activity, 4 TODO density, 5 technical debt,
\* 6 maturity.
NoteRank(note) ==
    IF note = NoteBinary THEN 1
    ELSE IF note \in {NoteNoRepository, NoteEmptyRepository} THEN 2
    ELSE IF SubSeq(note, 1, 8) \in {<<"A", "c", "t", "i", "v", "i", "t", "y">>, <<"D", "o",
            "r", "m", "a", "n", "c", "y">>} THEN 3
    ELSE IF note = NoteTodo THEN 4
    ELSE IF note = NoteDebt THEN 5
    ELSE IF note = NoteMaturity THEN 6
    ELSE 0

\* The note starts with the given words.
Starts(note, words) == Len(note) >= Len(words) /\ SubSeq(note, 1, Len(words)) = words

\* C24: the notes returned come in the fixed order binary artifact, version
\* control, activity, TODO density, technical debt, maturity, at most one of
\* each group (so one binary note for any number of binaries, never both
\* repository notes, never both burst and dormancy), and each note is there
\* exactly when its condition holds, the burst note taking the place of the
\* dormancy note when both conditions hold.
C24_NotesInFixedOrder ==
    pc = "notesDone" =>
        LET ev == genEvidence
            Has(words) == \E i \in DOMAIN notes : Starts(notes[i], words)
            Count(t) == Cardinality({i \in DOMAIN ev.CodeMarkers :
                                        ev.CodeMarkers[i].Type = t})
        IN /\ \A i \in DOMAIN notes : NoteRank(notes[i]) \in 1..6
           /\ \A i, j \in DOMAIN notes :
                i < j => NoteRank(notes[i]) < NoteRank(notes[j])
           /\ Has(<<"C", "o", "m", "p", "i", "l", "e", "d", " ", "b", "i", "n", "a", "r", "y">>) <=>
                \E i \in DOMAIN ev.FileSystem.LargestFiles :
                    LET path == ToLower(ev.FileSystem.LargestFiles[i].Path)
                    IN HasSuffix(path, <<".", "e", "x", "e">>) \/ HasSuffix(path, <<".", "d",
                            "l", "l">>)
           /\ Has(<<"N", "o", " ", "v", "e", "r", "s", "i", "o", "n", " ", "c", "o", "n", "t",
                   "r", "o", "l">>) <=> ~ev.Git.IsRepository
           /\ Has(<<"G", "i", "t", " ", "r", "e", "p", "o", "s", "i", "t", "o", "r", "y", " ",
                   "i", "n", "i", "t", "i", "a", "l", "i", "z", "e", "d", " ", "b", "u", "t",
                   " ", "e", "m", "p", "t", "y">>) <=>
                (ev.Git.IsRepository /\ ev.Git.TotalCommits = 0)
           /\ Has(<<"A", "c", "t", "i", "v", "i", "t", "y", " ", "b", "u", "r", "s",
                   "t">>) <=> ev.Timeline.ActivityBurst
           /\ Has(<<"D", "o", "r", "m", "a", "n", "c", "y">>) <=>
                (~ev.Timeline.ActivityBurst /\ ev.Timeline.MostRecentDay > 180)
           /\ Has(<<"H", "i", "g", "h", " ", "T", "O", "D", "O">>) <=> Count("TODO") > 20
           /\ Has(<<"E", "l", "e", "v", "a", "t", "e", "d", " ", "t", "e", "c", "h", "n", "i",
                   "c", "a", "l", " ", "d", "e", "b", "t">>) <=> Count("FIXME") + Count("HACK") > 5
           /\ Has(<<"M", "a", "t", "u", "r", "i", "t", "y">>) <=>
                (/\ ev.FileSystem.TotalFiles > 100
                 /\ ev.Git.TotalCommits > 50
                 /\ ev.Git.Contributors > 2)

\* C24 witness: three binaries among the largest files, a burst in a tree
\* that has also been dormant for 181 days, 21 TODO and 6 FIXME and HACK
\* markers, 101 files, 51 commits by 3 contributors: five notes, one of each
\* group that applies, the burst note and not the dormancy note.
C24_Witness ==
    /\ pc = "notesDone"
    /\ Len(genEvidence.FileSystem.LargestFiles) = 3
    /\ genEvidence.Timeline.ActivityBurst
    /\ genEvidence.Timeline.MostRecentDay = 181
    /\ Len(notes) = 5
    /\ notes[1] = NoteBinary
    /\ notes[2] = <<"A", "c", "t", "i", "v", "i", "t", "y", " ", "b", "u", "r", "s", "t", " ",
            "d", "e", "t", "e", "c", "t", "e", "d", ":", " ", "8", "0", "%", " ", "o", "f",
            " ", "f", "i", "l", "e", "s", " ", "m", "o", "d", "i", "f", "i", "e", "d", " ",
            "w", "i", "t", "h", "i", "n", " ", "7", " ", "d", "a", "y", "s", ".">>
    /\ notes[3] = NoteTodo
    /\ notes[4] = NoteDebt
    /\ notes[5] = NoteMaturity

\* ---------------------------------------------------------------------------
\* The commits retained in RecentActivity
\* ---------------------------------------------------------------------------

\* A history one commit longer than RecentActivity can hold.
MaxHistory == RecentCap + 1

\* The commits of the long history: an old one and a new one by one author.
HistoryCommits == {c \in Commits : c.Email = "bob@x"}

HistoryCommit == ForEachCommit(HistoryCommits, MaxHistory)

NextHistory == GitOpen \/ GitHead \/ GitLog \/ HistoryCommit \/ GitFinish

SpecHistory == InitGit /\ [][NextHistory]_vars

\* C25: when the iteration is over, RecentActivity has min(10, TotalCommits)
\* entries and they are the most recent commits, whatever the order the
\* commits were yielded in: no commit left out is later than a commit
\* retained, so when more than 10 were yielded the latest of them, whose time
\* is LastCommitDate, is among the retained.
C25_RecentAreMostRecent ==
    (pc = "gitDone" /\ repo = "log") =>
        /\ Len(gitEvidence.RecentActivity) = min(RecentCap, gitEvidence.TotalCommits)
        /\ gitEvidence.TotalCommits > RecentCap =>
              \E i \in DOMAIN gitEvidence.RecentActivity :
                  gitEvidence.RecentActivity[i].Date = gitEvidence.LastCommitDate

\* ---------------------------------------------------------------------------
\* The contributor map
\* ---------------------------------------------------------------------------

\* The email of the commits that bear the given author name.
EmailOf(name) == CHOOSE e \in {c.Email : c \in Commits} :
                    \E c \in Commits : c.Name = name /\ c.Email = e

\* C26: after every commit the callback has processed, and when the function
\* has returned, the contributor map has one entry per distinct author email
\* seen, under the name of the first commit seen with that email; the entry's
\* count is the number of commits seen with that email and the counts add up
\* to the number of commits seen; at the end Contributors is the number of
\* distinct emails and the counts add up to TotalCommits.  (While fewer than
\* 10 commits have been seen, recentCommits holds them all, in order.)
C26_OneEntryPerEmail ==
    (pc \in {"gitIter", "gitDone"} /\ repo = "log") =>
        LET seen == recentCommits
            With(e) == {i \in DOMAIN seen : EmailOf(seen[i].Author) = e}
            emails == {EmailOf(seen[i].Author) : i \in DOMAIN seen}
            counts == [i \in 1..Len(contributorList) |-> contributorList[i].Commits]
        IN /\ Len(seen) = commitCount
           /\ DOMAIN contributors = emails
           /\ \A e \in emails :
                /\ contributors[e].Email = e
                /\ contributors[e].Commits = Cardinality(With(e))
                /\ \E i \in With(e) :
                      /\ \A j \in With(e) : i <= j
                      /\ contributors[e].Name = seen[i].Author
           /\ pc = "gitDone" =>
                /\ gitEvidence.Contributors = Cardinality(emails)
                /\ gitEvidence.TotalCommits = commitCount
                /\ Len(contributorList) = Cardinality(emails)
                /\ SumSeq(counts) = gitEvidence.TotalCommits

\* C26 witness: commits by Ann, by Bob and by "Ann B" under Ann's email have
\* been processed: two contributors, Ann with two commits under her first
\* name, and three commits in all.
C26_Witness ==
    /\ pc = "gitDone" /\ repo = "log"
    /\ commitCount = 3
    /\ recentCommits[1].Author = "Ann"
    /\ recentCommits[2].Author = "Bob"
    /\ recentCommits[3].Author = "Ann B"
    /\ DOMAIN contributors = {"ann@x", "bob@x"}
    /\ contributors["ann@x"].Name = "Ann"
    /\ contributors["ann@x"].Commits = 2
    /\ contributors["bob@x"].Commits = 1
    /\ gitEvidence.Contributors = 2
    /\ gitEvidence.TotalCommits = 3

\* ---------------------------------------------------------------------------
\* Testing and Documentation in the weighted health score
\* ---------------------------------------------------------------------------

\* C27: the Testing and Documentation components CalculateHealthScoreWeighted
\* returns are 10 for every input: with the same findings and repository, the
\* score and the breakdown are the same for a tree with or without test files
\* and with or without documentation files, and the score is at least 20.
C27_TestingAndDocumentationAlwaysTen ==
    pc = "healthDone" =>
        /\ breakdown.Testing = 10
        /\ breakdown.Documentation = 10
        /\ totalScore >= 20
        /\ \A t \in {0, 1}, d \in {0, 1} :
            LET other == CalculateHealthScoreWeighted(findings,
                            [hEvidence EXCEPT !.TestFiles = t,
                                              !.DocumentationFiles = d])
            IN /\ other.totalScore = totalScore
               /\ other.breakdown = breakdown

\* C27 witness: a tree without test files and without documentation files,
\* and findings of the categories documentation and performance: Testing and
\* Documentation are 10 all the same.
C27_Witness ==
    /\ pc = "healthDone"
    /\ hEvidence.TestFiles = 0
    /\ hEvidence.DocumentationFiles = 0
    /\ Len(findings) = 2
    /\ findings[1].Category = FindingDocumentation
    /\ findings[1].Severity = SeverityCritical
    /\ findings[2].Category = FindingPerformance
    /\ breakdown.Testing = 10
    /\ breakdown.Documentation = 10
    /\ breakdown.CodeQuality = 15

\* ---------------------------------------------------------------------------
\* The weighted health score and the order of the findings
\* ---------------------------------------------------------------------------

\* The longest list of findings scored in every order.
MaxPermuted == 4

\* Findings that exhaust Performance (15) between them, and one of another
\* component.
PermutedFindings ==
    {HealthFinding(SeverityCritical, FindingPerformance),
     HealthFinding(SeverityHigh, FindingPerformance),
     HealthFinding(SeverityLow, FindingPerformance),
     HealthFinding(SeverityMedium, FindingSecurity)}

InitPermute ==
    /\ pc = "health"
    /\ findings \in SeqUpTo(PermutedFindings, MaxPermuted)
    /\ IdleScan /\ IdleHealth /\ IdleContext /\ IdleFS /\ IdleTop /\ IdleGit

SpecPermute == InitPermute /\ [][NextHealth]_vars

\* C30: CalculateHealthScoreWeighted returns the same score and the same
\* breakdown for every permutation of the findings list with the same
\* evidence, also when a component is floored at 0 on the way.
C30_OrderIndependent ==
    pc = "healthDone" =>
        \A p \in Permutations(DOMAIN findings) :
            LET permuted == [i \in DOMAIN findings |-> findings[p[i]]]
                r == CalculateHealthScoreWeighted(permuted, hEvidence)
            IN /\ r.totalScore = totalScore
               /\ r.breakdown = breakdown

\* C30 witness: Critical, High and Low performance findings deduct 16 from
\* 15: in the order scored the floor is met at the last finding, in the order
\* Low, Critical, High at the last as well but from 4, and Performance is 0.
C30_Witness ==
    /\ pc = "healthDone"
    /\ Len(findings) = 3
    /\ findings[1].Severity = SeverityCritical
    /\ findings[2].Severity = SeverityHigh
    /\ findings[3].Severity = SeverityLow
    /\ \A i \in 1..3 : findings[i].Category = FindingPerformance
    /\ DeductAll(InitialBreakdown, SubSeq(findings, 1, 2)).Performance = 0
    /\ DeductAll(InitialBreakdown, <<findings[3], findings[1]>>).Performance = 4
    /\ breakdown.Performance = 0
    /\ totalScore >= 85

\* ---------------------------------------------------------------------------
\* The directories ScanSecurity prunes
\* ---------------------------------------------------------------------------

\* C28: ScanSecurity's callback returns SkipDir for a directory exactly when
\* the directory's name is in excludeDirs; a dot-prefixed directory that is
\* not named there is descended into, with an empty excludeDirs list and with
\* a non-empty one alike.
C28_PrunesExactlyExcluded ==
    (pc \in {"security1", "security2"} /\ todo # <<>>) =>
        LET entry == EntryOf(tree, Head(todo)) IN
        entry.IsDir =>
            \A orders \in SecretOrders(entry.Lines) :
                SecurityFn(EmptySecurityEvidence, entry, opts.ExcludeDirs, orders).ret
                        = "SkipDir"
                    <=> \E i \in DOMAIN opts.ExcludeDirs :
                            entry.Name = opts.ExcludeDirs[i]

\* ---------------------------------------------------------------------------
\* The counters of ScanFileSystem
\* ---------------------------------------------------------------------------

\* The sum of the values of a map with numbers as values.
RECURSIVE SumValues(_, _)
SumValues(counts, keys) ==
    IF keys = {} THEN 0
    ELSE LET k == CHOOSE k \in keys : TRUE
         IN counts[k] + SumValues(counts, keys \ {k})

\* C29: after the call on the root, after every later call of the callback
\* and after the return, TotalFiles is the sum of the eight category
\* counters and the sum of the values of FileTypes, TotalSize is the sum of
\* the sizes of the files counted, and SkippedDirsCount is the length of
\* SkippedDirs.
C29_CountersAgree ==
    pc \in {"fsWalk", "fsWalked", "fsDone"} =>
        LET ev == fsEvidence
            cat == ev.CategorizedFiles
        IN /\ ev.TotalFiles = cat.SourceFiles + cat.AssetFiles + cat.DependencyFiles
                                + cat.BuildArtifacts + cat.ConfigFiles
                                + cat.DocumentationFiles + cat.TestFiles + cat.OtherFiles
           /\ ev.TotalFiles = SumValues(ev.FileTypes, DOMAIN ev.FileTypes)
           /\ ev.TotalFiles = Len(walked)
           /\ ev.TotalSize = SumSeq([i \in DOMAIN walked |-> walked[i].Size])
           /\ ev.SkippedDirsCount = Len(ev.SkippedDirs)

\* C29 witness: the walk is going on after three files of two categories and
\* two extensions were counted and a directory was skipped.
C29_Witness ==
    /\ pc = "fsWalk"
    /\ fsEvidence.TotalFiles = 3
    /\ fsEvidence.CategorizedFiles.SourceFiles = 2
    /\ fsEvidence.CategorizedFiles.OtherFiles = 1
    /\ Cardinality(DOMAIN fsEvidence.FileTypes) = 2
    /\ fsEvidence.TotalSize = 4
    /\ fsEvidence.SkippedDirsCount = 1

====
